---------------------------- MODULE Spec2Model ----------------------------
(***************************************************************************)
(* Model of the server discovery, query and catalog code of                *)
(* scum-server-browser.                                                    *)
(*                                                                         *)
(* Byte strings (Python bytes) are sequences of integers 0..255.  Text     *)
(* strings (Python str) are sequences of Unicode code points.              *)
(*                                                                         *)
(* SpecMaster : SteamMasterServerQuerier.get_server_list / _query_master   *)
(* SpecQuery  : the A2S_INFO queriers and A2SQuerier._parse_a2s_info       *)
(* SpecFetch  : ServerManager.fetch_servers / _fetch_battlemetrics_servers *)
(* SpecPing   : PingService.ping_server                                    *)
(* SpecWindow : MainWindow and its worker threads (fetch, ping, display)   *)
(* SpecRefresh, SpecStraggler: the window over refreshes that drop a server*)
(* SpecRound  : one probing round, with catalogs longer than a batch       *)
(* SpecChains : refreshes of a catalog longer than a batch (batch timers)   *)
(* SpecFilter : the window while the user edits the search box             *)
(* SpecView   : DisplayWorker.run and display_servers as functions         *)
(* SpecDisplay: the window with DisplayWorker.run running pass by pass     *)
(***************************************************************************)
EXTENDS Integers, Sequences, FiniteSets, Bags, TLC

VARIABLES
    \* ---- SteamMasterServerQuerier (src/scum_tracker/services/steam_query.py)
    pc,             \* position in get_server_list / _query_master
    master_idx,     \* index in MASTER_SERVERS of the address being tried (0: none yet)
    sock,           \* the UDP socket of _query_master: "none", "open", "closed"
    servers,        \* _query_master: accumulated list of (ip, port)
    seed,           \* _query_master: seed of the next request (bytes)
    iteration,      \* _query_master: loop counter
    data,           \* _query_master: the datagram received last
    batch_servers,  \* _query_master: entries parsed from the datagram received last
    query,          \* _query_master: the request packet sent last
    ret,            \* value returned by the last _query_master call
    result,         \* value returned by get_server_list (NotReturned before)
    \* history of the run, not read by the code
    sends,          \* number of sendto calls of the current _query_master call
    parsed,         \* non-marker entries parsed so far in the current call, in order
    stop,           \* why the current call left its loop ("" while it runs)
    attempts,       \* one record per master address tried so far
    \* ---- the three A2S_INFO queriers: A2SQuerier.query_server (steam_query.py),
    \* A2SQueryer.query_server_info (query_steam_servers.py) and
    \* A2SQuery.query_server_info (check_version_correlation.py)
    q_impl,         \* the class whose query function ran last ("" before any call)
    q_sock,         \* its socket when the call ended: "none", "open", "closed"
    q_request,      \* the request packet it sent (<<>>: none)
    q_event,        \* what the network did during the call
    q_data,         \* the datagram recvfrom returned (<<>>: none)
    q_result,       \* the value returned, or Raised
    \* history of the run, not read by the code
    q_returned,     \* per failure kind, the values query_server has returned for it
    \* ---- ServerManager (src/scum_tracker/services/server_manager.py)
    MANUAL_SERVERS, \* the configured list of manual servers
    bm_pc,          \* position in fetch_servers: "idle", "loop", "returned"
    bm_servers,     \* _fetch_battlemetrics_servers: servers
    bm_url,         \* _fetch_battlemetrics_servers: url (None after the last page)
    bm_page_count,  \* _fetch_battlemetrics_servers: page_count
    bm_uuids,       \* number of uuid4 identifiers generated so far
    bm_ret,         \* value returned by _fetch_battlemetrics_servers, or Raised
    fs_ret,         \* value returned by fetch_servers, or Raised
    \* history of the run, not read by the code
    bm_requests,    \* number of session.get calls of the current call
    bm_responses,   \* what each of them met, in order
    \* ---- MainWindow and its worker threads (src/scum_tracker/ui/main_window.py),
    \* the Database (models/database.py) and PingService (services/ping_service.py)
    platform_system,  \* platform.system()
    mw_servers,       \* MainWindow.servers
    db_favorites,     \* table favorites: the set of server_id
    db_ping_history,  \* table ping_history: the bag of rows (server_id, latency, success)
    fetch_workers,    \* number of ServerFetchWorker threads that have not emitted yet
    ping_workers,     \* the running PingWorker threads: the bag of their servers
    batch_timers,     \* pending QTimer.singleShot calls of _ping_batch: bag of start_idx
    events,           \* signals queued for the main thread, in order of emission
    pings_completed,  \* MainWindow.pings_completed
    total_pings,      \* MainWindow.total_pings
    display_worker,   \* MainWindow.display_worker: None or the running DisplayWorker
    now,              \* datetime.now(), in ticks
    \* history of the run, not read by the code
    handled,          \* the queued signal whose slot ran last (None before)
    loads,            \* number of load_servers calls after MainWindow.__init__
    \* ---- PingService.ping_server called on its own
    ping_outcome,     \* what the socket calls of the last ping_server call did (None before)
    ping_result,      \* the value that call returned, or Raised (None before)
    ping_sock,        \* its socket when the call ended: "none", "open", "closed"
    \* ---- the filter widgets, the sort settings and the table of MainWindow
    search_box,           \* search_box.text(), as code points
    favorites_checkbox,   \* favorites_checkbox.isChecked()
    region_filter,        \* region_filter.currentText()
    max_ping,             \* max_ping.value()
    hide_empty_checkbox,  \* hide_empty_checkbox.isChecked()
    hide_full_checkbox,   \* hide_full_checkbox.isChecked()
    table_sort_column,    \* MainWindow.table_sort_column
    table_sort_order,     \* MainWindow.table_sort_order
    displayed_servers     \* MainWindow.displayed_servers: the view shown in the table

master_vars == <<pc, master_idx, sock, servers, seed, iteration, data,
                 batch_servers, query, ret, result, sends, parsed, stop, attempts>>

query_vars == <<q_impl, q_sock, q_request, q_event, q_data, q_result, q_returned>>

fetch_vars == <<MANUAL_SERVERS, bm_pc, bm_servers, bm_url, bm_page_count, bm_uuids,
                bm_ret, fs_ret, bm_requests, bm_responses>>

window_vars == <<platform_system, mw_servers, db_favorites, db_ping_history,
                 fetch_workers, ping_workers, batch_timers, events, pings_completed,
                 total_pings, display_worker, now, handled, loads>>

ping_vars == <<ping_outcome, ping_result, ping_sock>>

widget_vars == <<search_box, favorites_checkbox, region_filter, max_ping,
                 hide_empty_checkbox, hide_full_checkbox, table_sort_column,
                 table_sort_order>>

display_vars == <<widget_vars, displayed_servers>>

vars == <<master_vars, query_vars, fetch_vars, window_vars, ping_vars, display_vars>>

-----------------------------------------------------------------------------
(* Text helpers *)

\* str(n) for a non-negative integer: its decimal digits as code points
RECURSIVE str_int(_)
str_int(n) == IF n < 10 THEN <<48 + n>> ELSE str_int(n \div 10) \o <<48 + (n % 10)>>

\* '.'.join(str(b) for b in ip_bytes)
RECURSIVE join_dot(_)
join_dot(bs) ==
    IF Len(bs) = 0 THEN <<>>
    ELSE IF Len(bs) = 1 THEN str_int(bs[1])
    ELSE str_int(bs[1]) \o <<46>> \o join_dot(Tail(bs))

unpack_H_little_endian(port_bytes) == port_bytes[1] + port_bytes[2] * 256

\* struct.unpack('>H', port_bytes)[0]
unpack_H(port_bytes) == port_bytes[1] * 256 + port_bytes[2]

\* Python slice data[a:b] (0-based, clipped to the buffer)
Slice(d, a, b) ==
    LET hi == IF b < Len(d) THEN b ELSE Len(d)
    IN  IF a >= hi THEN <<>> ELSE SubSeq(d, a + 1, hi)

\* str.encode(): UTF-8
RECURSIVE utf8_encode(_)
utf8_encode(cps) ==
    IF cps = <<>> THEN <<>>
    ELSE LET cp == Head(cps)
             enc == IF cp < 128 THEN <<cp>>
                    ELSE IF cp < 2048
                    THEN <<192 + (cp \div 64), 128 + (cp % 64)>>
                    ELSE IF cp < 65536
                    THEN <<224 + (cp \div 4096), 128 + ((cp \div 64) % 64),
                           128 + (cp % 64)>>
                    ELSE <<240 + (cp \div 262144), 128 + ((cp \div 4096) % 64),
                           128 + ((cp \div 64) % 64), 128 + (cp % 64)>>
         IN  enc \o utf8_encode(Tail(cps))

\* bytes.decode('utf-8', errors=...) from the 0-based offset i: an ill-formed
\* sequence (its maximal well-formed prefix) becomes U+FFFD under "replace"
\* and nothing under "ignore"
RECURSIVE utf8_decode_from(_, _, _)
utf8_decode_from(bs, i, errors) ==
    IF i >= Len(bs) THEN <<>>
    ELSE
    LET b == bs[i + 1]
        bad == IF errors = "replace" THEN <<65533>> ELSE <<>>
        In(k, lo, hi) == i + k < Len(bs) /\ bs[i + k + 1] >= lo /\ bs[i + k + 1] <= hi
        c(k) == bs[i + k + 1] % 64
        lo2 == IF b = 224 THEN 160 ELSE IF b = 240 THEN 144 ELSE 128
        hi2 == IF b = 237 THEN 159 ELSE IF b = 244 THEN 143 ELSE 191
    IN  IF b < 128 THEN <<b>> \o utf8_decode_from(bs, i + 1, errors)
        ELSE IF b >= 194 /\ b <= 223
        THEN IF In(1, 128, 191)
             THEN <<(b % 32) * 64 + c(1)>> \o utf8_decode_from(bs, i + 2, errors)
             ELSE bad \o utf8_decode_from(bs, i + 1, errors)
        ELSE IF b >= 224 /\ b <= 239
        THEN IF ~In(1, lo2, hi2) THEN bad \o utf8_decode_from(bs, i + 1, errors)
             ELSE IF ~In(2, 128, 191) THEN bad \o utf8_decode_from(bs, i + 2, errors)
             ELSE <<(b % 16) * 4096 + c(1) * 64 + c(2)>>
                  \o utf8_decode_from(bs, i + 3, errors)
        ELSE IF b >= 240 /\ b <= 244
        THEN IF ~In(1, lo2, hi2) THEN bad \o utf8_decode_from(bs, i + 1, errors)
             ELSE IF ~In(2, 128, 191) THEN bad \o utf8_decode_from(bs, i + 2, errors)
             ELSE IF ~In(3, 128, 191) THEN bad \o utf8_decode_from(bs, i + 3, errors)
             ELSE <<(b % 8) * 262144 + c(1) * 4096 + c(2) * 64 + c(3)>>
                  \o utf8_decode_from(bs, i + 4, errors)
        ELSE bad \o utf8_decode_from(bs, i + 1, errors)

utf8_decode(bs, errors) == utf8_decode_from(bs, 0, errors)

\* data.find(b'\x00', start): 0-based index of the first zero byte at or after
\* start, -1 when there is none
RECURSIVE find_nul(_, _)
find_nul(d, start) ==
    IF start >= Len(d) THEN -1
    ELSE IF d[start + 1] = 0 THEN start
    ELSE find_nul(d, start + 1)

\* Python's None, and the outcome of a call that raised instead of returning
\* (records, so that they compare with the records that model objects)
None == [none |-> TRUE]

Raised == [raised |-> TRUE]

-----------------------------------------------------------------------------
(* SteamMasterServerQuerier *)

MASTER_SERVERS == <<"208.64.200.52:27011", "208.64.200.65:27011", "208.78.164.10:27011">>

SCUM_APP_ID == 513650

max_iterations == 100

NotReturned == "NotReturned"

\* the text "0.0.0.0"
ZeroIp == <<48, 46, 48, 46, 48, 46, 48>>

\* b'0.0.0.0:0\x00'
NullSeed == ZeroIp \o <<58, 48, 0>>

\* b'\xFF'
region == <<255>>

\* f'\\appid\\{appid}'.encode() + b'\x00'
filter_str(appid) ==
    utf8_encode(<<92, 97, 112, 112, 105, 100, 92>> \o str_int(appid)) \o <<0>>

\* b'1' + region + seed + filter_str
build_query(sd, appid) == <<49>> \o region \o sd \o filter_str(appid)

next_seed_without_port(entry) == utf8_encode(entry[1] \o <<58, 48>>) \o <<0>>

\* f'{last_ip}:{last_port}'.encode() + b'\x00'
next_seed(entry) == utf8_encode(entry[1] \o <<58>> \o str_int(entry[2])) \o <<0>>

\* while iteration < max_iterations
loop_condition_le(it) == it <= max_iterations

loop_condition(it) == it < max_iterations

\* The inner loop of _query_master over one datagram, from offset i with the
\* batch parsed so far.  end_marker: the loop hit 0.0.0.0:0 and the function
\* returns from inside the loop; batch: batch_servers when the loop is left.
RECURSIVE parse_entries_no_marker_check(_, _, _)
parse_entries_no_marker_check(d, i, batch) ==
    IF i + 6 <= Len(d)
    THEN LET ip   == join_dot(Slice(d, i, i + 4))
             port == unpack_H(Slice(d, i + 4, i + 6))
         IN  parse_entries_no_marker_check(d, i + 6, Append(batch, <<ip, port>>))
    ELSE [end_marker |-> FALSE, batch |-> batch]

RECURSIVE parse_entries(_, _, _)
parse_entries(d, i, batch) ==
    IF i + 6 <= Len(d)
    THEN LET ip_bytes   == Slice(d, i, i + 4)
             port_bytes == Slice(d, i + 4, i + 6)
             ip   == join_dot(ip_bytes)
             port == unpack_H(port_bytes)
         IN  IF ip = ZeroIp /\ port = 0
             THEN [end_marker |-> TRUE, batch |-> batch]
             ELSE parse_entries(d, i + 6, Append(batch, <<ip, port>>))
    ELSE [end_marker |-> FALSE, batch |-> batch]


-----------------------------------------------------------------------------
(* A2SQuerier: the info response decoder *)

\* ServerInfo(...): port and steam_id keep their default None
ServerInfo(name, map, game, players, max_players, bots, server_type, environment, visibility, vac, version) ==
    [name |-> name, map |-> map, game |-> game, players |-> players,
     max_players |-> max_players, bots |-> bots, server_type |-> server_type,
     environment |-> environment, visibility |-> visibility, vac |-> vac,
     version |-> version, port |-> None, steam_id |-> None]

\* read_string(start_idx) of _parse_a2s_info: <<string, next index>>
read_string(d, start_idx) ==
    LET end_idx == find_nul(d, start_idx)
    IN  IF end_idx = -1
        THEN <<<<>>, start_idx>>
        ELSE <<utf8_decode(Slice(d, start_idx, end_idx), "replace"), end_idx + 1>>

\* chr(b)
chr(b) == <<b>>

_parse_a2s_info_no_tag_check(d) ==
    IF Len(d) < 5 \/ Slice(d, 0, 4) # <<255, 255, 255, 255>> THEN None
    ELSE
    LET r_name   == read_string(d, 5 + 1)
        r_map    == read_string(d, r_name[2])
        r_folder == read_string(d, r_map[2])
        r_game   == read_string(d, r_folder[2])
        idx      == r_game[2] + 2
    IN  IF idx + 7 > Len(d) THEN None
        ELSE ServerInfo(r_name[1], r_map[1], r_game[1],
                        d[idx + 1], d[idx + 2], d[idx + 3],
                        chr(d[idx + 4]), chr(d[idx + 5]),
                        d[idx + 6], d[idx + 7],
                        read_string(d, idx + 7)[1])

_parse_a2s_info_no_protocol_skip(d) ==
    IF Len(d) < 5 \/ Slice(d, 0, 4) # <<255, 255, 255, 255>> THEN None
    ELSE IF d[5] # 73 THEN None
    ELSE
    LET r_name   == read_string(d, 5)
        r_map    == read_string(d, r_name[2])
        r_folder == read_string(d, r_map[2])
        r_game   == read_string(d, r_folder[2])
        idx      == r_game[2] + 2
    IN  IF idx + 7 > Len(d) THEN None
        ELSE ServerInfo(r_name[1], r_map[1], r_game[1],
                        d[idx + 1], d[idx + 2], d[idx + 3],
                        chr(d[idx + 4]), chr(d[idx + 5]),
                        d[idx + 6], d[idx + 7],
                        read_string(d, idx + 7)[1])

_parse_a2s_info(d) ==
    IF Len(d) < 5 \/ Slice(d, 0, 4) # <<255, 255, 255, 255>> THEN None
    ELSE IF d[5] # 73 THEN None
    ELSE
    LET r_name   == read_string(d, 5 + 1)
        r_map    == read_string(d, r_name[2])
        r_folder == read_string(d, r_map[2])
        r_game   == read_string(d, r_folder[2])
        idx      == r_game[2] + 2
    IN  IF idx + 7 > Len(d) THEN None
        ELSE ServerInfo(r_name[1], r_map[1], r_game[1],
                        d[idx + 1], d[idx + 2], d[idx + 3],
                        chr(d[idx + 4]), chr(d[idx + 5]),
                        d[idx + 6], d[idx + 7],
                        read_string(d, idx + 7)[1])

FailureKinds == {"timeout", "malformed", "unreachable"}

-----------------------------------------------------------------------------
(* The A2S_INFO request of the three queriers *)

\* b'Source Engine Query\x00'
SourceEngineQuery ==
    <<83, 111, 117, 114, 99, 101, 32, 69, 110, 103, 105, 110, 101, 32,
      81, 117, 101, 114, 121, 0>>

\* A2SQuerier.A2S_INFO_REQUEST = b'\xFF\xFF\xFF\xFF\x54Source Engine Query\x00'
A2S_INFO_REQUEST == <<255, 255, 255, 255, 84>> \o SourceEngineQuery

\* struct.pack('>I', n) for n = hi * 65536 + lo (the halves keep the value
\* within the model checker's integers)
pack_I(hi, lo) == <<(hi \div 256) % 256, hi % 256, (lo \div 256) % 256, lo % 256>>

\* A2SQueryer.A2S_INFO = 0x54
A2S_INFO == 84

\* A2SQueryer: struct.pack('>I', 0xFFFFFFFF) + bytes([self.A2S_INFO])
\*             + b'Source Engine Query\x00'
A2SQueryer_request == pack_I(65535, 65535) \o <<A2S_INFO>> \o SourceEngineQuery

A2SQuery_request_no_nul ==
    <<255, 255, 255, 255, 84>> \o SubSeq(SourceEngineQuery, 1, Len(SourceEngineQuery) - 1)

\* A2SQuery: b'\xFF\xFF\xFF\xFFT' + b'Source Engine Query\x00'
A2SQuery_request == <<255, 255, 255, 255, 84>> \o SourceEngineQuery

-----------------------------------------------------------------------------
(* The script queriers' decoders *)

\* s.rstrip('\x00')
RECURSIVE rstrip_nul(_)
rstrip_nul(str) ==
    IF str # <<>> /\ str[Len(str)] = 0
    THEN rstrip_nul(SubSeq(str, 1, Len(str) - 1))
    ELSE str

\* s.split('\x00')[0]
RECURSIVE split_nul_first(_)
split_nul_first(str) ==
    IF str = <<>> \/ Head(str) = 0 THEN <<>>
    ELSE <<Head(str)>> \o split_nul_first(Tail(str))

\* str.isspace() of one character
IsSpace(cp) ==
    \/ cp \in 9..13
    \/ cp \in 28..32
    \/ cp \in {133, 160, 5760, 8232, 8233, 8239, 8287, 12288}
    \/ cp \in 8192..8202

\* s.strip()
RECURSIVE strip(_)
strip(str) ==
    IF str # <<>> /\ IsSpace(Head(str)) THEN strip(Tail(str))
    ELSE IF str # <<>> /\ IsSpace(str[Len(str)])
    THEN strip(SubSeq(str, 1, Len(str) - 1))
    ELSE str

\* A2SQueryer.query_server_info from the length test to the returned dict
A2SQueryer_parse(response) ==
    IF Len(response) < 6 THEN None
    ELSE
    LET d          == Slice(response, 5, Len(response))
        protocol   == d[1]
        name_end   == find_nul(d, 1)
        map_end    == find_nul(d, name_end + 1)
        folder_end == find_nul(d, map_end + 1)
        game_end   == find_nul(d, folder_end + 1)
        offset     == game_end + 1
        version_end == find_nul(d, offset)
    IN  IF name_end = -1 THEN None
        ELSE IF map_end = -1 THEN None
        ELSE IF folder_end = -1 THEN None
        ELSE IF game_end = -1 THEN None
        ELSE [name     |-> utf8_decode(Slice(d, 1, name_end), "ignore"),
              map      |-> utf8_decode(Slice(d, name_end + 1, map_end), "ignore"),
              folder   |-> utf8_decode(Slice(d, map_end + 1, folder_end), "ignore"),
              game     |-> utf8_decode(Slice(d, folder_end + 1, game_end), "ignore"),
              version  |-> IF version_end = -1
                           THEN rstrip_nul(utf8_decode(Slice(d, offset, offset + 20),
                                                       "ignore"))
                           ELSE utf8_decode(Slice(d, offset, version_end), "ignore"),
              protocol |-> protocol,
              raw_response |-> Slice(response, 0, 100)]

\* read_cstring(data, offset) of A2SQuery.query_server_info
read_cstring(d, offset) ==
    LET end == find_nul(d, offset)
    IN  IF end = -1
        THEN <<None, offset>>
        ELSE <<utf8_decode(Slice(d, offset, end), "ignore"), end + 1>>

\* the text "Unknown"
Unknown == <<85, 110, 107, 110, 111, 119, 110>>

\* A2SQuery.query_server_info from the header test to the returned dict
A2SQuery_parse(response) ==
    IF Len(response) < 6 \/ Slice(response, 0, 4) # <<255, 255, 255, 255>> THEN None
    ELSE
    LET r_protocol == read_cstring(response, 5 - 1)
        r_name     == read_cstring(response, r_protocol[2])
        r_map      == read_cstring(response, r_name[2])
        r_dir      == read_cstring(response, r_map[2])
        r_desc     == read_cstring(response, r_dir[2])
        offset     == r_desc[2]
    IN  [name    |-> r_name[1],
         version |-> IF offset < Len(response)
                     THEN strip(split_nul_first(
                              utf8_decode(Slice(response, offset, offset + 32), "ignore")))
                     ELSE Unknown]

-----------------------------------------------------------------------------
(* The master server: what one sendto / recvfrom round can produce *)

\* 6-byte entries a reply is built from: the end marker, and two addresses
\* that each agree with the marker in one of its two parts
EntryMarker == <<0, 0, 0, 0, 0, 0>>
EntryZeroIp == <<0, 0, 0, 0, 105, 135>>
EntryZeroPort == <<1, 2, 3, 4, 0, 0>>

ReplyHeader == <<255, 255, 255, 255, 102, 10>>

\* Datagrams after which the loop of _query_master goes on
ContinuingReplies ==
    { ReplyHeader \o EntryZeroIp \o EntryZeroPort,
      ReplyHeader \o EntryZeroPort \o <<9, 9, 9>>,
      EntryMarker \o EntryZeroIp }

\* Datagrams that end the loop
FinalReplies ==
    { <<255, 255, 255, 255, 102>>,
      ReplyHeader,
      ReplyHeader \o <<1, 2, 3, 4, 105>>,
      ReplyHeader \o EntryMarker,
      ReplyHeader \o EntryZeroIp \o EntryMarker,
      ReplyHeader \o EntryMarker \o EntryZeroIp }

Replies == ContinuingReplies \cup FinalReplies

\* the master keeps resending its page after this many rounds
MaxVaried == 1

\* a datagram the master may send in the current round
MasterMaySend(d) ==
    \/ iteration < MaxVaried
    \/ d = data
    \/ d \in FinalReplies

\* no A2S_INFO query has been made
QueryIdle ==
    /\ q_impl = ""
    /\ q_sock = "none"
    /\ q_request = <<>>
    /\ q_event = "none"
    /\ q_data = <<>>
    /\ q_result = None
    /\ q_returned = [k \in FailureKinds |-> {}]

-----------------------------------------------------------------------------
(* get_server_list and _query_master, one action per step *)

Attempt(addr, raised, list) == [addr |-> addr, raised |-> raised, servers |-> list]

\* get_server_list: the for loop is exhausted, return []
GSL_Exhausted ==
    /\ UNCHANGED <<query_vars, fetch_vars, window_vars, ping_vars, display_vars>>
    /\ pc = "gsl_next"
    /\ master_idx = Len(MASTER_SERVERS)
    /\ result' = <<>>
    /\ pc' = "done"
    /\ UNCHANGED <<master_idx, sock, servers, seed, iteration, data, batch_servers,
                   query, ret, sends, parsed, stop, attempts>>

\* get_server_list: next master address; _query_master up to its while loop.
\* created = FALSE: socket.socket() raises before the try block of _query_master,
\* get_server_list catches the exception and continues with the next address.
\* The locals of the previous call are gone; the history starts anew.
GSL_TryMaster(created) ==
    /\ UNCHANGED <<query_vars, fetch_vars, window_vars, ping_vars, display_vars>>
    /\ pc = "gsl_next"
    /\ master_idx < Len(MASTER_SERVERS)
    /\ master_idx' = master_idx + 1
    /\ servers' = <<>>
    /\ seed' = NullSeed
    /\ iteration' = 0
    /\ data' = <<>>
    /\ batch_servers' = <<>>
    /\ query' = <<>>
    /\ ret' = <<>>
    /\ sends' = 0
    /\ parsed' = <<>>
    /\ IF created
       THEN /\ sock' = "open"
            /\ stop' = ""
            /\ pc' = "qm_loop"
            /\ UNCHANGED attempts
       ELSE /\ sock' = "none"
            /\ stop' = "socket_error"
            /\ attempts' = Append(attempts, Attempt(MASTER_SERVERS[master_idx'], TRUE, <<>>))
            /\ pc' = "gsl_next"
    /\ UNCHANGED result

\* _query_master leaves the loop or returns from inside it: finally closes the socket
QM_Leave(why, list) ==
    /\ stop' = why
    /\ sock' = "closed"
    /\ ret' = list
    /\ pc' = "qm_returned"

\* One pass of the while loop in which sendto raises (caught by except Exception)
QM_SendFails ==
    /\ UNCHANGED <<query_vars, fetch_vars, window_vars, ping_vars, display_vars>>
    /\ pc = "qm_loop"
    /\ loop_condition(iteration)
    /\ query' = build_query(seed, SCUM_APP_ID)
    /\ sends' = sends + 1
    /\ QM_Leave("error", servers)
    /\ UNCHANGED <<master_idx, servers, seed, iteration, data, batch_servers,
                   result, parsed, attempts>>

QM_RecvFails_Discard(why) ==
    /\ UNCHANGED <<query_vars, fetch_vars, window_vars, ping_vars, display_vars>>
    /\ pc = "qm_loop"
    /\ loop_condition(iteration)
    /\ query' = build_query(seed, SCUM_APP_ID)
    /\ sends' = sends + 1
    /\ QM_Leave(why, <<>>)
    /\ UNCHANGED <<master_idx, servers, seed, iteration, data, batch_servers,
                   result, parsed, attempts>>

\* One pass of the while loop in which recvfrom raises: socket.timeout breaks the
\* loop, any other exception is caught by except Exception
QM_RecvFails(why) ==
    /\ UNCHANGED <<query_vars, fetch_vars, window_vars, ping_vars, display_vars>>
    /\ pc = "qm_loop"
    /\ loop_condition(iteration)
    /\ query' = build_query(seed, SCUM_APP_ID)
    /\ sends' = sends + 1
    /\ QM_Leave(why, servers)
    /\ UNCHANGED <<master_idx, servers, seed, iteration, data, batch_servers,
                   result, parsed, attempts>>

\* One pass of the while loop in which recvfrom returns the datagram d
QM_Iteration(d) ==
    /\ UNCHANGED <<query_vars, fetch_vars, window_vars, ping_vars, display_vars>>
    /\ pc = "qm_loop"
    /\ loop_condition(iteration)
    /\ MasterMaySend(d)
    /\ query' = build_query(seed, SCUM_APP_ID)
    /\ sends' = sends + 1
    /\ data' = d
    /\ IF Len(d) < 6
       THEN /\ QM_Leave("short", servers)
            /\ UNCHANGED <<servers, seed, iteration, batch_servers, parsed>>
       ELSE LET p == parse_entries(d, 6, <<>>)
            IN  /\ batch_servers' = p.batch
                /\ parsed' = parsed \o p.batch
                /\ IF p.end_marker
                   THEN /\ QM_Leave("end_marker", servers)
                        /\ UNCHANGED <<servers, seed, iteration>>
                   ELSE IF p.batch = <<>>
                   THEN /\ QM_Leave("empty_batch", servers)
                        /\ UNCHANGED <<servers, seed, iteration>>
                   ELSE /\ servers' = servers \o p.batch
                        /\ seed' = next_seed(p.batch[Len(p.batch)])
                        /\ iteration' = iteration + 1
                        /\ UNCHANGED <<pc, sock, ret, stop>>
    /\ UNCHANGED <<master_idx, result, attempts>>

QM_CapReached_ReturnsLastBatch ==
    /\ UNCHANGED <<query_vars, fetch_vars, window_vars, ping_vars, display_vars>>
    /\ pc = "qm_loop"
    /\ ~loop_condition(iteration)
    /\ QM_Leave("cap", batch_servers)
    /\ UNCHANGED <<master_idx, servers, seed, iteration, data, batch_servers,
                   query, result, sends, parsed, attempts>>

\* The while condition fails: leave the loop, close the socket, return servers
QM_CapReached ==
    /\ UNCHANGED <<query_vars, fetch_vars, window_vars, ping_vars, display_vars>>
    /\ pc = "qm_loop"
    /\ ~loop_condition(iteration)
    /\ QM_Leave("cap", servers)
    /\ UNCHANGED <<master_idx, servers, seed, iteration, data, batch_servers,
                   query, result, sends, parsed, attempts>>

GSL_AfterQuery_ReturnAny ==
    /\ UNCHANGED <<query_vars, fetch_vars, window_vars, ping_vars, display_vars>>
    /\ pc = "qm_returned"
    /\ attempts' = Append(attempts, Attempt(MASTER_SERVERS[master_idx], FALSE, ret))
    /\ result' = ret
    /\ pc' = "done"
    /\ UNCHANGED <<master_idx, sock, servers, seed, iteration, data, batch_servers,
                   query, ret, sends, parsed, stop>>

\* get_server_list after _query_master returned: if servers: return servers
GSL_AfterQuery ==
    /\ UNCHANGED <<query_vars, fetch_vars, window_vars, ping_vars, display_vars>>
    /\ pc = "qm_returned"
    /\ attempts' = Append(attempts, Attempt(MASTER_SERVERS[master_idx], FALSE, ret))
    /\ IF ret # <<>>
       THEN /\ result' = ret
            /\ pc' = "done"
       ELSE /\ pc' = "gsl_next"
            /\ UNCHANGED result
    /\ UNCHANGED <<master_idx, sock, servers, seed, iteration, data, batch_servers,
                   query, ret, sends, parsed, stop>>

\* get_server_list has just been called
MasterInitial ==
    /\ pc = "gsl_next"
    /\ master_idx = 0
    /\ sock = "none"
    /\ servers = <<>>
    /\ seed = <<>>
    /\ iteration = 0
    /\ data = <<>>
    /\ batch_servers = <<>>
    /\ query = <<>>
    /\ ret = <<>>
    /\ result = NotReturned
    /\ sends = 0
    /\ parsed = <<>>
    /\ stop = ""
    /\ attempts = <<>>

\* fetch_servers has not been called
FetchIdle(manual) ==
    /\ MANUAL_SERVERS = manual
    /\ bm_pc = "idle"
    /\ bm_servers = <<>>
    /\ bm_url = None
    /\ bm_page_count = 0
    /\ bm_uuids = 0
    /\ bm_ret = None
    /\ fs_ret = None
    /\ bm_requests = 0
    /\ bm_responses = <<>>

\* MainWindow.__init__ has returned: its last statement, load_servers(), has
\* started the first ServerFetchWorker
WindowInitial(system, favorites) ==
    /\ platform_system = system
    /\ mw_servers = <<>>
    /\ db_favorites = favorites
    /\ db_ping_history = EmptyBag
    /\ fetch_workers = 1
    /\ ping_workers = EmptyBag
    /\ batch_timers = EmptyBag
    /\ events = <<>>
    /\ pings_completed = 0
    /\ total_pings = 0
    /\ display_worker = None
    /\ now = 0
    /\ handled = None
    /\ loads = 0

-----------------------------------------------------------------------------
(* DisplayWorker.run and MainWindow.display_servers (main_window.py) *)

\* the code points of the names and search texts of the model
code_points(text) ==
    CASE text = "" -> <<>>
      [] text = "Alpha" -> <<65, 108, 112, 104, 97>>
      [] text = "alpha" -> <<97, 108, 112, 104, 97>>
      [] text = "Bravo" -> <<66, 114, 97, 118, 111>>
      [] text = "Charlie" -> <<67, 104, 97, 114, 108, 105, 101>>
      [] text = "Unknown" -> Unknown
      [] text = "RAV" -> <<82, 65, 86>>

\* str.lower() of an ASCII text
lower(text) == [i \in 1..Len(text) |-> IF text[i] \in 65..90 THEN text[i] + 32 ELSE text[i]]

\* `part in text`
contains(text, part) ==
    \E i \in 0..(Len(text) - Len(part)) : \A j \in 1..Len(part) : text[i + j] = part[j]

\* a < b for two sort keys; a key is a sequence of integers (a text, or one number)
key_less(a, b) ==
    \E i \in 1..(Len(a) + 1) :
        /\ \A j \in 1..(i - 1) : j <= Len(b) /\ a[j] = b[j]
        /\ \/ i = Len(a) + 1 /\ Len(b) >= i
           \/ i <= Len(a) /\ i <= Len(b) /\ a[i] < b[i]

AscendingOrder == "Qt.SortOrder.AscendingOrder"
DescendingOrder == "Qt.SortOrder.DescendingOrder"

COUNTRY_TO_CONTINENT ==
    "US" :> "North America" @@ "CA" :> "North America" @@
    "MX" :> "North America" @@ "BR" :> "South America" @@
    "CO" :> "South America" @@ "CL" :> "South America" @@
    "AR" :> "South America" @@ "PE" :> "South America" @@ "GB" :> "Europe" @@
    "DE" :> "Europe" @@ "FR" :> "Europe" @@ "NL" :> "Europe" @@
    "PL" :> "Europe" @@ "RU" :> "Europe" @@ "IT" :> "Europe" @@
    "ES" :> "Europe" @@ "PT" :> "Europe" @@ "BE" :> "Europe" @@
    "CH" :> "Europe" @@ "AT" :> "Europe" @@ "SE" :> "Europe" @@
    "NO" :> "Europe" @@ "DK" :> "Europe" @@ "FI" :> "Europe" @@
    "CZ" :> "Europe" @@ "HU" :> "Europe" @@ "RO" :> "Europe" @@
    "GR" :> "Europe" @@ "UA" :> "Europe" @@ "AE" :> "Middle East" @@
    "SA" :> "Middle East" @@ "IL" :> "Middle East" @@
    "TR" :> "Middle East" @@ "IQ" :> "Middle East" @@
    "IR" :> "Middle East" @@ "CN" :> "Asia" @@ "JP" :> "Asia" @@
    "SG" :> "Asia" @@ "IN" :> "Asia" @@ "KR" :> "Asia" @@ "TH" :> "Asia" @@
    "MY" :> "Asia" @@ "PH" :> "Asia" @@ "VN" :> "Asia" @@ "ID" :> "Asia" @@
    "PK" :> "Asia" @@ "BD" :> "Asia" @@ "AU" :> "Oceania" @@
    "NZ" :> "Oceania" @@ "ZA" :> "Africa" @@ "EG" :> "Africa" @@
    "NG" :> "Africa"

\* selected_countries of DisplayWorker.run
selected_countries(region_name) ==
    IF region_name = "All Regions" THEN {}
    ELSE {country \in DOMAIN COUNTRY_TO_CONTINENT : COUNTRY_TO_CONTINENT[country] = region_name}

\* the sort key of an entity without a usable latency
NoLatencyKey == 999999

ping_filter_removes_unmeasured(server, limit) ==
    (IF server.latency # <<>> /\ server.latency[1] > 0 THEN server.latency[1]
     ELSE NoLatencyKey) > limit

\* the max-ping filter: `if server.latency is not None and server.latency > 0:
\* if server.latency > self.max_ping: continue`
ping_filter_removes(server, limit) ==
    server.latency # <<>> /\ server.latency[1] > 0 /\ server.latency[1] > limit

\* the filters of DisplayWorker.run other than the max-ping one
other_filters_keep(server, w) ==
    /\ ~(w.favorites_only /\ ~server.is_favorite)
    /\ ~(w.search_text # <<>> /\ ~contains(lower(code_points(server.name)), w.search_text))
    /\ ~(selected_countries(w.region_name) # {}
            /\ server.region \notin selected_countries(w.region_name))
    /\ ~(w.hide_empty /\ server.players = 0)
    /\ ~(w.hide_full /\ server.players >= server.max_players)

\* the loop body of the filter: the server reaches filtered.append(server)
filter_keeps(server, w) ==
    other_filters_keep(server, w) /\ ~ping_filter_removes(server, w.max_ping)

\* the entities of a view are given by their indices (1-based) in the list the
\* view was made from
Indices(list) == [k \in 1..Len(list) |-> k]

\* filtered, after the filter loop over the list
filtered_of(list, w) == SelectSeq(Indices(list), LAMBDA k : filter_keeps(list[k], w))

\* the key functions of the three sortable columns
sort_key(server, column) ==
    CASE column = 1 -> lower(code_points(server.name))
      [] column = 2 -> <<server.players>>
      [] column = 3 -> <<IF server.latency # <<>> /\ server.latency[1] # 0
                         THEN server.latency[1] ELSE NoLatencyKey>>

RECURSIVE sorted_into_reversing_ties(_, _, _, _, _)
sorted_into_reversing_ties(acc, rest, list, column, reverse) ==
    IF rest = <<>> THEN acc
    ELSE LET x == Head(rest)
             kx == sort_key(list[x], column)
             stays_before(y) ==
                 IF reverse THEN key_less(kx, sort_key(list[y], column))
                 ELSE ~key_less(kx, sort_key(list[y], column))
             n == Cardinality({i \in 1..Len(acc) : stays_before(acc[i])})
         IN  sorted_into_reversing_ties(
                 SubSeq(acc, 1, n) \o <<x>> \o SubSeq(acc, n + 1, Len(acc)),
                 Tail(rest), list, column, reverse)

\* sorted(rows, key=..., reverse=...): a stable sort, also when reversed
RECURSIVE sorted_into(_, _, _, _, _)
sorted_into(acc, rest, list, column, reverse) ==
    IF rest = <<>> THEN acc
    ELSE LET x == Head(rest)
             kx == sort_key(list[x], column)
             stays_before(y) ==
                 IF reverse THEN ~key_less(sort_key(list[y], column), kx)
                 ELSE ~key_less(kx, sort_key(list[y], column))
             n == Cardinality({i \in 1..Len(acc) : stays_before(acc[i])})
         IN  sorted_into(SubSeq(acc, 1, n) \o <<x>> \o SubSeq(acc, n + 1, Len(acc)),
                         Tail(rest), list, column, reverse)

\* the if/elif chain on the sort column: columns 1, 2 and 3 sort, the others pass
sorted_by(list, rows, column, order) ==
    IF column \in {1, 2, 3}
    THEN sorted_into(<<>>, rows, list, column, order = DescendingOrder)
    ELSE rows

\* [s for s in rows if s.is_favorite] and [s for s in rows if not s.is_favorite]
favorites_of(list, rows) == SelectSeq(rows, LAMBDA k : list[k].is_favorite)
non_favorites_of(list, rows) == SelectSeq(rows, LAMBDA k : ~list[k].is_favorite)

\* DisplayWorker.run on a list that does not change while it runs
run_view(list, w) ==
    LET rows == sorted_by(list, filtered_of(list, w), w.sort_column, w.sort_order)
    IN  favorites_of(list, rows) \o non_favorites_of(list, rows)

\* the sort and the partition of display_servers
display_rows(list, rows, column, order) ==
    LET again == sorted_by(list, rows, column, order)
    IN  favorites_of(list, again) \o non_favorites_of(list, again)

-----------------------------------------------------------------------------
(* The initial state, continued *)

\* no ping_server call of its own has been made
ProbeIdle ==
    /\ ping_outcome = None
    /\ ping_result = None
    /\ ping_sock = "none"

\* the filter settings of a first run: the defaults of the widgets
DefaultSettings ==
    [search_text |-> "", favorites_only |-> FALSE, max_ping |-> 300,
     hide_empty |-> FALSE, hide_full |-> FALSE, region |-> "All Regions"]

\* init_ui() has built the widgets and _load_filter_settings() has applied
\* the saved settings
WidgetsShow(settings) ==
    /\ search_box = code_points(settings.search_text)
    /\ favorites_checkbox = settings.favorites_only
    /\ region_filter = settings.region
    /\ max_ping = settings.max_ping
    /\ hide_empty_checkbox = settings.hide_empty
    /\ hide_full_checkbox = settings.hide_full

\* init_ui() has also set the table's sort to the name column, ascending, and
\* nothing is shown yet
DisplayInitial(settings) ==
    /\ WidgetsShow(settings)
    /\ table_sort_column = 1
    /\ table_sort_order = AscendingOrder
    /\ displayed_servers = [of |-> <<>>, rows |-> <<>>]

\* MANUAL_SERVERS as the source has it, an empty favorites table, no saved
\* filter settings
Init ==
    /\ MasterInitial
    /\ QueryIdle
    /\ FetchIdle(<<>>)
    /\ WindowInitial("Linux", {})
    /\ ProbeIdle
    /\ DisplayInitial(DefaultSettings)

NextMaster ==
    \/ GSL_Exhausted
    \/ \E created \in BOOLEAN : GSL_TryMaster(created)
    \/ QM_SendFails
    \/ \E why \in {"timeout", "error"} : QM_RecvFails(why)
    \/ \E d \in Replies : QM_Iteration(d)
    \/ QM_CapReached
    \/ GSL_AfterQuery

SpecMaster == Init /\ [][NextMaster]_vars

\* a call always takes its next step, and every recvfrom returns or raises
FairSpecMaster == SpecMaster /\ WF_vars(NextMaster)

-----------------------------------------------------------------------------
(* The game server: what one sendto / recvfrom exchange can produce *)

\* field values of synthetic info responses
InfoFields ==
    [protocol: {17},
     name: {<<83, 233>>, <<>>},
     map: {<<77, 97, 112>>},
     folder: {<<70>>},
     game: {<<71, 32>>},
     app_id: {0, 3330},
     players: {5},
     max_players: {64},
     bots: {1},
     server_type: {100},
     environment: {108, 200},
     visibility: {0},
     vac: {1},
     version: {<<49, 46, 48>>, <<8364>>}]

\* The response format documented in _parse_a2s_info, with the 2-byte app id
\* little-endian
encode_info_response(f) ==
    <<255, 255, 255, 255, 73, f.protocol>>
    \o utf8_encode(f.name) \o <<0>>
    \o utf8_encode(f.map) \o <<0>>
    \o utf8_encode(f.folder) \o <<0>>
    \o utf8_encode(f.game) \o <<0>>
    \o <<f.app_id % 256, (f.app_id \div 256) % 256>>
    \o <<f.players, f.max_players, f.bots, f.server_type, f.environment,
         f.visibility, f.vac>>
    \o utf8_encode(f.version) \o <<0>>

WellFormedResponses == { encode_info_response(f) : f \in InfoFields }

\* a response cut short
Truncations(d) == { SubSeq(d, 1, n) : n \in 0..(Len(d) - 1) }

TamperBytes == {0, 65, 255}

\* a response with one byte overwritten
Corruptions(d) == { [d EXCEPT ![p] = b] : p \in 1..Len(d), b \in TamperBytes }

\* datagrams that are no damaged info response
OtherDatagrams ==
    { <<255, 255, 255, 255, 73, 17, 65, 65, 65, 65, 65, 65, 65, 65, 65>>,
      <<255, 255, 255, 255, 73, 17, 65, 0, 65, 65, 65, 65, 65, 65, 65, 65, 65, 65>>,
      <<255, 255, 255, 255, 65>> \o SourceEngineQuery }

Datagrams ==
    OtherDatagrams \cup
    UNION { {d} \cup Truncations(d) \cup Corruptions(d) : d \in WellFormedResponses }

\* what the network does during one query: socket.socket raises, sendto raises,
\* recvfrom raises socket.timeout, recvfrom raises another error, recvfrom
\* returns a datagram
NetworkFailures == {"socket_error", "send_error", "timeout", "recv_error"}

-----------------------------------------------------------------------------
(* The three queriers, one action per call *)

\* the failure kind of a call of A2SQuerier.query_server that returned
FailureKind(event, value) ==
    IF event = "timeout" THEN "timeout"
    ELSE IF event \in {"send_error", "recv_error"} THEN "unreachable"
    ELSE IF value = None THEN "malformed"
    ELSE "ok"

Record(event, value) ==
    LET k == FailureKind(event, value)
    IN  IF k \in FailureKinds
        THEN [q_returned EXCEPT ![k] = @ \cup {value}]
        ELSE q_returned

\* a query is made when none is under way
Idle == q_impl = ""

A2SQuerier_query_server_fails_typed(event) ==
    /\ Idle
    /\ UNCHANGED <<master_vars, fetch_vars, window_vars, ping_vars, display_vars>>
    /\ q_impl' = "A2SQuerier"
    /\ q_event' = event
    /\ q_data' = <<>>
    /\ IF event = "socket_error"
       THEN /\ q_sock' = "none"
            /\ q_request' = <<>>
            /\ q_result' = Raised
            /\ UNCHANGED q_returned
       ELSE /\ q_sock' = "closed"
            /\ q_request' = A2S_INFO_REQUEST
            /\ q_result' = IF event = "timeout" THEN [error |-> "timeout"] ELSE None
            /\ q_returned' = Record(event, IF event = "timeout"
                                           THEN [error |-> "timeout"] ELSE None)

\* A2SQuerier.query_server, no datagram received
A2SQuerier_query_server_fails(event) ==
    /\ Idle
    /\ UNCHANGED <<master_vars, fetch_vars, window_vars, ping_vars, display_vars>>
    /\ q_impl' = "A2SQuerier"
    /\ q_event' = event
    /\ q_data' = <<>>
    /\ IF event = "socket_error"
       THEN \* socket.socket() is outside the try block
            /\ q_sock' = "none"
            /\ q_request' = <<>>
            /\ q_result' = Raised
            /\ UNCHANGED q_returned
       ELSE /\ q_sock' = "closed"
            /\ q_request' = A2S_INFO_REQUEST
            /\ q_result' = None
            /\ q_returned' = Record(event, None)

\* A2SQuerier.query_server, recvfrom returns the datagram d
A2SQuerier_query_server(d) ==
    /\ Idle
    /\ UNCHANGED <<master_vars, fetch_vars, window_vars, ping_vars, display_vars>>
    /\ q_impl' = "A2SQuerier"
    /\ q_event' = "data"
    /\ q_data' = d
    /\ q_sock' = "closed"
    /\ q_request' = A2S_INFO_REQUEST
    /\ q_result' = _parse_a2s_info(d)
    /\ q_returned' = Record("data", _parse_a2s_info(d))

\* str(e) of an OSError
ErrorText == "str(e)"

\* A2SQueryer.query_server_info, no datagram received
A2SQueryer_query_server_info_fails(event) ==
    /\ Idle
    /\ UNCHANGED <<master_vars, fetch_vars, window_vars, ping_vars, display_vars>>
    /\ q_impl' = "A2SQueryer"
    /\ q_event' = event
    /\ q_data' = <<>>
    /\ q_sock' = IF event = "socket_error" THEN "none" ELSE "closed"
    /\ q_request' = IF event = "socket_error" THEN <<>> ELSE A2SQueryer_request
    /\ q_result' = IF event = "timeout" THEN [error |-> "timeout"]
                   ELSE [error |-> ErrorText]
    /\ UNCHANGED q_returned

\* A2SQueryer.query_server_info, recvfrom returns the datagram d
A2SQueryer_query_server_info(d) ==
    /\ Idle
    /\ UNCHANGED <<master_vars, fetch_vars, window_vars, ping_vars, display_vars>>
    /\ q_impl' = "A2SQueryer"
    /\ q_event' = "data"
    /\ q_data' = d
    /\ q_sock' = "closed"
    /\ q_request' = A2SQueryer_request
    /\ q_result' = A2SQueryer_parse(d)
    /\ UNCHANGED q_returned

\* A2SQuery.query_server_info, no datagram received: the bare except returns
\* None and sock.close() is not reached
A2SQuery_query_server_info_fails(event) ==
    /\ Idle
    /\ UNCHANGED <<master_vars, fetch_vars, window_vars, ping_vars, display_vars>>
    /\ q_impl' = "A2SQuery"
    /\ q_event' = event
    /\ q_data' = <<>>
    /\ q_sock' = IF event = "socket_error" THEN "none" ELSE "open"
    /\ q_request' = IF event = "socket_error" THEN <<>> ELSE A2SQuery_request
    /\ q_result' = None
    /\ UNCHANGED q_returned

\* A2SQuery.query_server_info, recvfrom returns the datagram d
A2SQuery_query_server_info(d) ==
    /\ Idle
    /\ UNCHANGED <<master_vars, fetch_vars, window_vars, ping_vars, display_vars>>
    /\ q_impl' = "A2SQuery"
    /\ q_event' = "data"
    /\ q_data' = d
    /\ q_sock' = "closed"
    /\ q_request' = A2SQuery_request
    /\ q_result' = A2SQuery_parse(d)
    /\ UNCHANGED q_returned

\* the caller's loop over the servers goes on to its next query
Caller_NextServer ==
    /\ q_impl # ""
    /\ UNCHANGED <<master_vars, fetch_vars, window_vars, ping_vars, display_vars>>
    /\ q_impl' = ""
    /\ q_sock' = "none"
    /\ q_request' = <<>>
    /\ q_event' = "none"
    /\ q_data' = <<>>
    /\ q_result' = None
    /\ UNCHANGED q_returned

NextQuery ==
    \/ Idle /\ \E event \in NetworkFailures : A2SQuerier_query_server_fails(event)
    \/ Idle /\ \E d \in Datagrams : A2SQuerier_query_server(d)
    \/ Idle /\ \E event \in NetworkFailures : A2SQueryer_query_server_info_fails(event)
    \/ Idle /\ \E d \in Datagrams : A2SQueryer_query_server_info(d)
    \/ Idle /\ \E event \in NetworkFailures : A2SQuery_query_server_info_fails(event)
    \/ Idle /\ \E d \in Datagrams : A2SQuery_query_server_info(d)
    \/ Caller_NextServer

SpecQuery == Init /\ [][NextQuery]_vars

-----------------------------------------------------------------------------
(* ServerManager: the BattleMetrics fetch (server_manager.py)               *)
(*                                                                          *)
(* A JSON object (Python dict) is a function whose DOMAIN is the set of     *)
(* keys present; JSON null is None.  An Optional[int] or Optional[datetime] *)
(* attribute is a sequence: <<>> is None and <<v>> is the value v.  A text  *)
(* built by an f-string is the sequence of its parts; a text taken as it is *)
(* (a record's id) is the one-element sequence of that text.                *)

\* dict.get(key, default)
get(d, key, default) == IF key \in DOMAIN d THEN d[key] ELSE default

\* GameServer(...): latency, is_favorite and last_ping_time keep their defaults
GameServer(id, name, ip, port, players, max_players, map, region_, version) ==
    [id |-> id, name |-> name, ip |-> ip, port |-> port, players |-> players,
     max_players |-> max_players, map |-> map, region |-> region_,
     version |-> version, latency |-> <<>>, is_favorite |-> FALSE,
     last_ping_time |-> <<>>]

\* max_pages of _fetch_battlemetrics_servers
max_pages == 10

\* the URL of a page
Url(name) == [url |-> name]

\* url = f"{BATTLEMETRICS_API}?filter[game]={GAME_ID}&page[size]=100"
FirstUrl == Url("https://api.battlemetrics.com/servers?filter[game]=scum&page[size]=100")

\* str(uuid.uuid4()): the n-th identifier generated
uuid4(n) == <<"uuid4", n>>

\* one pass of `for server_data in server_list`: the GameServer built from a
\* record; Raised when attrs or details is None (None has no attribute get)
server_of(server_data, n) ==
    LET attrs == get(server_data, "attributes", <<>>)
    IN  IF attrs = None THEN Raised
        ELSE LET details == get(attrs, "details", <<>>)
             IN  IF details = None THEN Raised
                 ELSE GameServer(get(server_data, "id", uuid4(n)),
                                 get(attrs, "name", "Unknown"),
                                 get(attrs, "ip", "0.0.0.0"),
                                 get(attrs, "port", 0),
                                 get(attrs, "players", 0),
                                 get(attrs, "maxPlayers", 0),
                                 get(details, "map", "Unknown"),
                                 get(attrs, "country", "Unknown"),
                                 get(details, "version", "Unknown"))

\* `for server_data in server_list: ... servers.append(server)` from record i
\* on, n identifiers generated so far
RECURSIVE process_records(_, _, _, _)
process_records(server_list, i, acc, n) ==
    IF i > Len(server_list)
    THEN [raised |-> FALSE, servers |-> acc, uuids |-> n]
    ELSE LET server == server_of(server_list[i], n + 1)
         IN  IF server = Raised
             THEN [raised |-> TRUE, servers |-> acc, uuids |-> n + 1]
             ELSE process_records(server_list, i + 1, Append(acc, server), n + 1)

\* the exceptions session.get, raise_for_status and response.json raise, all
\* of them requests.RequestException
RequestFailures == {"timeout", "status", "malformed_json"}

\* what one request meets: an exception, or a decoded JSON document
Failing(kind) == [fail |-> kind]
Json(document) == [json |-> document]

\* one pass of the while loop of _fetch_battlemetrics_servers, from
\* session.get to page_count += 1
loop_pass(acc, n, response) ==
    IF "fail" \in DOMAIN response
    THEN [outcome |-> "RequestException", servers |-> acc, uuids |-> n, url |-> None]
    ELSE LET document == response.json
             server_list == get(document, "data", <<>>)
             r == process_records(server_list, 1, acc, n)
             links == get(document, "links", <<>>)
         IN  IF r.raised \/ links = None
             THEN [outcome |-> "raised", servers |-> r.servers, uuids |-> r.uuids,
                   url |-> None]
             ELSE [outcome |-> "ok", servers |-> r.servers, uuids |-> r.uuids,
                   url |-> get(links, "next", None)]

\* the condition of the while loop
fetch_loop_condition(url, page_count) == url # None /\ page_count < max_pages

\* a call that returns the value v (Raised: a call that raises)
Returns(v) == [returns |-> v]

\* what _fetch_battlemetrics_servers hands to its caller: `return servers`
\* after the loop, `return []` in the except clause, or the exception that
\* clause does not catch
fetch_returns_keep_partial(outcome, acc) ==
    IF outcome = "raised" THEN Raised ELSE Returns(acc)
fetch_returns(outcome, acc) ==
    IF outcome = "RequestException" THEN Returns(<<>>)
    ELSE IF outcome = "raised" THEN Raised
    ELSE Returns(acc)

\* _get_manual_servers() over the configured MANUAL_SERVERS list
manual_server_of(manual_server) ==
    GameServer(<<"manual_", get(manual_server, "ip", None), "_",
                 get(manual_server, "port", None)>>,
               get(manual_server, "name", "Unknown"),
               get(manual_server, "ip", "0.0.0.0"),
               get(manual_server, "port", 0),
               get(manual_server, "players", 0),
               get(manual_server, "max_players", 128),
               "Unknown",
               get(manual_server, "country", "??"),
               get(manual_server, "version", "Unknown"))

_get_manual_servers(manual) == [k \in 1..Len(manual) |-> manual_server_of(manual[k])]

\* fetch_servers: servers.extend(manual servers), or the exception passed on
fetch_servers(fetched, manual) ==
    IF fetched = Raised THEN Raised
    ELSE Returns(fetched.returns \o _get_manual_servers(manual))

\* a whole call of _fetch_battlemetrics_servers against an aggregator that
\* answers request k with aggregator[k] (its last answer again afterwards)
RECURSIVE fetch_loop(_, _, _, _, _)
fetch_loop(aggregator, acc, url, page_count, n) ==
    IF ~fetch_loop_condition(url, page_count)
    THEN [value |-> fetch_returns("ok", acc), uuids |-> n]
    ELSE LET k == IF page_count < Len(aggregator) THEN page_count + 1
                  ELSE Len(aggregator)
             p == loop_pass(acc, n, aggregator[k])
         IN  IF p.outcome = "ok"
             THEN fetch_loop(aggregator, p.servers, p.url, page_count + 1, p.uuids)
             ELSE [value |-> fetch_returns(p.outcome, p.servers), uuids |-> p.uuids]

_fetch_battlemetrics_servers(aggregator, n) == fetch_loop(aggregator, <<>>, FirstUrl, 0, n)

-----------------------------------------------------------------------------
(* The aggregator: the documents it may answer with *)

\* the attributes object of the aggregator's records
Attributes(name) ==
    [name |-> name, ip |-> "1.2.3.4", port |-> 7777, players |-> 5,
     maxPlayers |-> 64, country |-> "US",
     details |-> [map |-> "M1", version |-> "0.256.1304"]]

RecordAlpha == [id |-> <<"1">>, attributes |-> Attributes("Alpha")]
RecordBravo ==
    [id |-> <<"2">>, attributes |-> [Attributes("Bravo") EXCEPT !.ip = "5.6.7.8"]]

\* records that lack a member or hold null in its place
RecordNoId == [attributes |-> Attributes("Charlie")]
RecordNoAttributes == [id |-> <<"3">>]
RecordNullAttributes == [id |-> <<"3">>, attributes |-> None]
RecordNoDetails ==
    [id |-> <<"3">>,
     attributes |-> [name |-> "Charlie", ip |-> "5.6.7.8", port |-> 7779,
                     players |-> 1, maxPlayers |-> 32, country |-> "DE"]]
RecordNullDetails ==
    [id |-> <<"3">>,
     attributes |-> [name |-> "Charlie", ip |-> "5.6.7.8", port |-> 7779,
                     players |-> 1, maxPlayers |-> 32, country |-> "DE",
                     details |-> None]]
RecordNoNumbers ==
    [id |-> <<"3">>,
     attributes |-> [name |-> "Charlie", ip |-> "5.6.7.8", country |-> "DE",
                     details |-> [map |-> "M1", version |-> "0.512.25"]]]

OddRecords == {RecordNoId, RecordNoAttributes, RecordNullAttributes, RecordNoDetails,
               RecordNullDetails, RecordNoNumbers}

\* the record lists of a page
RecordLists ==
    {<<>>, <<RecordAlpha>>, <<RecordBravo>>, <<RecordAlpha, RecordBravo>>, <<RecordAlpha, RecordAlpha>>,
     <<RecordNoId, RecordNoId>>}
    \cup {<<RecordAlpha, r, RecordBravo>> : r \in OddRecords}

NextUrl == Url("next")

\* the links member of a page: a next URL, a null next, no next, or null
LinksValues == {[next |-> NextUrl], [next |-> None], <<>>, None}

Pages ==
    {[data |-> l, links |-> k] : l \in RecordLists, k \in LinksValues}
    \cup {[data |-> l] : l \in RecordLists}

\* the pages of an aggregator that has nothing more to tell
ThinPages ==
    {[data |-> <<RecordBravo>>, links |-> [next |-> NextUrl]],
     [data |-> <<RecordBravo>>, links |-> [next |-> None]]}

Responses == {Failing(kind) : kind \in RequestFailures} \cup {Json(p) : p \in Pages}

ThinResponses == {Failing(kind) : kind \in RequestFailures} \cup {Json(p) : p \in ThinPages}

\* the number of requests of one call whose answer is drawn from all Responses
MaxVariedPages == 1

\* the number of load_servers calls after the one of MainWindow.__init__
MaxLoads == 1

\* the entries MANUAL_SERVERS may be configured with
ManualAlpha == [name |-> "My Private Server", ip |-> "192.168.1.1", port |-> 7777]
ManualBravo == [ip |-> "192.168.1.2", port |-> 7778, country |-> "DE"]

ManualLists == {<<>>, <<ManualAlpha>>, <<ManualAlpha, ManualAlpha>>,
                <<ManualAlpha, ManualBravo>>}

-----------------------------------------------------------------------------
(* ServerManager.fetch_servers, one pass of the page loop at a time *)

\* fetch_servers() is called: _fetch_battlemetrics_servers up to the while loop
fetch_servers_call ==
    /\ bm_pc = "idle"
    /\ bm_pc' = "loop"
    /\ bm_servers' = <<>>
    /\ bm_url' = FirstUrl
    /\ bm_page_count' = 0
    /\ UNCHANGED <<bm_uuids, bm_ret, fs_ret, bm_requests, bm_responses, MANUAL_SERVERS>>
    /\ UNCHANGED <<master_vars, query_vars, window_vars, ping_vars, display_vars>>

\* one pass of the while loop; when it raises, the except clause or the
\* propagation through fetch_servers
fetch_page(response) ==
    /\ bm_pc = "loop"
    /\ fetch_loop_condition(bm_url, bm_page_count)
    /\ LET p == loop_pass(bm_servers, bm_uuids, response)
       IN  /\ bm_requests' = bm_requests + 1
           /\ bm_responses' = Append(bm_responses, response)
           /\ bm_uuids' = p.uuids
           /\ IF p.outcome = "ok"
              THEN /\ bm_servers' = p.servers
                   /\ bm_url' = p.url
                   /\ bm_page_count' = bm_page_count + 1
                   /\ UNCHANGED <<bm_pc, bm_ret, fs_ret>>
              ELSE /\ bm_pc' = "returned"
                   /\ bm_ret' = fetch_returns(p.outcome, p.servers)
                   /\ fs_ret' = fetch_servers(bm_ret', MANUAL_SERVERS)
                   /\ UNCHANGED <<bm_servers, bm_url, bm_page_count>>
    /\ UNCHANGED MANUAL_SERVERS
    /\ UNCHANGED <<master_vars, query_vars, window_vars, ping_vars, display_vars>>

\* the while loop ends: return servers, and fetch_servers adds the manual ones
fetch_loop_ends ==
    /\ bm_pc = "loop"
    /\ ~fetch_loop_condition(bm_url, bm_page_count)
    /\ bm_pc' = "returned"
    /\ bm_ret' = fetch_returns("ok", bm_servers)
    /\ fs_ret' = fetch_servers(bm_ret', MANUAL_SERVERS)
    /\ UNCHANGED <<bm_servers, bm_url, bm_page_count, bm_uuids, bm_requests,
                   bm_responses, MANUAL_SERVERS>>
    /\ UNCHANGED <<master_vars, query_vars, window_vars, ping_vars, display_vars>>

\* the answer the aggregator may give to the next request
AggregatorMayAnswer(response) ==
    \/ bm_page_count < MaxVariedPages
    \/ response \in ThinResponses

NextFetch ==
    \/ fetch_servers_call
    \/ bm_pc = "loop" /\ \E response \in Responses :
           AggregatorMayAnswer(response) /\ fetch_page(response)
    \/ fetch_loop_ends

InitFetch ==
    /\ MasterInitial
    /\ QueryIdle
    /\ \E manual \in ManualLists : FetchIdle(manual)
    /\ WindowInitial("Linux", {})
    /\ ProbeIdle
    /\ DisplayInitial(DefaultSettings)

SpecFetch == InitFetch /\ [][NextFetch]_vars

-----------------------------------------------------------------------------
(* PingService.ping_server (ping_service.py) *)

\* PingRecord(server_id, latency, success, error_message); the timestamp is
\* the moment the record is made
PingRecord(server_id, latency, success, error_message) ==
    [server_id |-> server_id, latency |-> latency, success |-> success,
     error_message |-> error_message]

\* the elapsed times of a connection, in ms
Latencies == {0, 35}

\* what socket.socket() and sock.connect() may do: socket() raises, or connect
\* returns after `elapsed` ms, times out, is refused (an OSError), or raises an
\* exception that is not an OSError (a port outside 0..65535, a port that
\* is not an integer)
PingOutcomes ==
    {[connect |-> "connected", elapsed |-> ms] : ms \in Latencies}
    \cup {[connect |-> "timeout"], [connect |-> "refused"], [connect |-> "error"],
          [socket |-> "error"]}

\* the host at 1.2.3.4 may do anything; the others are down
PingOutcomesAt(ip) == IF ip = "1.2.3.4" THEN PingOutcomes ELSE {[connect |-> "timeout"]}

\* the texts of error_message
ConnectionTimeout == <<"Connection timeout">>
ConnectionFailed(e) == <<"Connection failed: ", e>>

ping_server_refused_as_timeout(outcome) ==
    IF "socket" \in DOMAIN outcome
    THEN [record |-> PingRecord(<<"">>, -1, FALSE, <<<<"str(e)">>>>), sock |-> "none"]
    ELSE IF outcome.connect = "connected"
    THEN [record |-> PingRecord(<<"">>, outcome.elapsed, TRUE, <<>>), sock |-> "closed"]
    ELSE IF outcome.connect \in {"timeout", "refused"}
    THEN [record |-> PingRecord(<<"">>, -1, FALSE, <<ConnectionTimeout>>), sock |-> "closed"]
    ELSE [record |-> PingRecord(<<"">>, -1, FALSE, <<<<"str(e)">>>>), sock |-> "closed"]

ping_server_catches_oserror_only(outcome) ==
    IF "socket" \in DOMAIN outcome
    THEN [record |-> PingRecord(<<"">>, -1, FALSE, <<<<"str(e)">>>>), sock |-> "none"]
    ELSE IF outcome.connect = "connected"
    THEN [record |-> PingRecord(<<"">>, outcome.elapsed, TRUE, <<>>), sock |-> "closed"]
    ELSE IF outcome.connect = "timeout"
    THEN [record |-> PingRecord(<<"">>, -1, FALSE, <<ConnectionTimeout>>), sock |-> "closed"]
    ELSE IF outcome.connect = "refused"
    THEN [record |-> PingRecord(<<"">>, -1, FALSE, <<ConnectionFailed("str(e)")>>),
          sock |-> "closed"]
    ELSE [record |-> Raised, sock |-> "closed"]

\* ping_server(ip, port) under the outcome: the record it returns and the
\* state of its socket once the finally clause has run
ping_server(outcome) ==
    IF "socket" \in DOMAIN outcome
    THEN [record |-> PingRecord(<<"">>, -1, FALSE, <<<<"str(e)">>>>), sock |-> "none"]
    ELSE IF outcome.connect = "connected"
    THEN [record |-> PingRecord(<<"">>, outcome.elapsed, TRUE, <<>>), sock |-> "closed"]
    ELSE IF outcome.connect = "timeout"
    THEN [record |-> PingRecord(<<"">>, -1, FALSE, <<ConnectionTimeout>>), sock |-> "closed"]
    ELSE IF outcome.connect = "refused"
    THEN [record |-> PingRecord(<<"">>, -1, FALSE, <<ConnectionFailed("str(e)")>>),
          sock |-> "closed"]
    ELSE [record |-> PingRecord(<<"">>, -1, FALSE, <<<<"str(e)">>>>), sock |-> "closed"]

\* sock.settimeout(1.5): a connection that succeeds has taken at most 1500 ms
ConnectTimeoutMs == 1500

\* everything a ping_server call may meet
ProbeOutcomes ==
    {[connect |-> "connected", elapsed |-> ms] : ms \in 0..ConnectTimeoutMs}
    \cup {[connect |-> "timeout"], [connect |-> "refused"], [connect |-> "error"],
          [socket |-> "error"]}

\* a call of PingService.ping_server(ip, port) and its return
PingService_ping_server(outcome) ==
    /\ ping_outcome = None
    /\ ping_outcome' = outcome
    /\ ping_result' = ping_server(outcome).record
    /\ ping_sock' = ping_server(outcome).sock
    /\ UNCHANGED <<master_vars, query_vars, fetch_vars, window_vars, display_vars>>

NextPing == \E outcome \in ProbeOutcomes : PingService_ping_server(outcome)

SpecPing == Init /\ [][NextPing]_vars

-----------------------------------------------------------------------------
(* MainWindow and its worker threads (main_window.py) *)

\* batch_size = 8 if platform.system() == 'Windows' else 10
batch_size == IF platform_system = "Windows" THEN 8 ELSE 10

\* the bag with one more, or one less, copy of x
BagAdd(B, x) == B (+) SetToBag({x})
BagRemove(B, x) == B (-) SetToBag({x})

\* PingWorker(server): what the thread uses of its server
PingWorker(server) == [id |-> server.id, ip |-> server.ip, port |-> server.port]

\* the workers of list[from + 1 .. to] (range(from, to) of the 0-based list),
\* added to the bag of running PingWorkers
RECURSIVE StartWorkers(_, _, _, _)
StartWorkers(B, list, from, to) ==
    IF from >= to THEN B
    ELSE StartWorkers(BagAdd(B, PingWorker(list[from + 1])), list, from + 1, to)

\* the index (1-based) of the first server of the list with that id, 0 if none:
\* `for server in self.servers: if server.id == server_id: ... break`
RECURSIVE first_with_id(_, _, _)
first_with_id(list, server_id, k) ==
    IF k > Len(list) THEN 0
    ELSE IF list[k].id = server_id THEN k
    ELSE first_with_id(list, server_id, k + 1)

\* the queued signals
servers_fetched(list) == [sig |-> "servers_fetched", servers |-> list]
ping_completed(server_id, latency, success) ==
    [sig |-> "ping_completed", server_id |-> server_id, latency |-> latency,
     success |-> success]
display_ready(emitted) == [sig |-> "display_ready", servers |-> emitted]

\* the main thread is about to run the slot of the signal queued first
Delivers(sig) == events # <<>> /\ Head(events).sig = sig

\* A list object is held by reference: <<>> stands for the list that
\* MainWindow.servers holds now, <<list>> for a list it held before.
list_of(ref) == IF ref = <<>> THEN mw_servers ELSE ref[1]

\* `self.servers = servers` is about to run: who held the list keeps that list
detached(ref) == IF ref = <<>> THEN <<mw_servers>> ELSE ref

\* a list of entities of the list `of`, in the order of `rows`: the entities
\* are shared with that list, not copied
view(of, rows) == IF rows = <<>> THEN [of |-> <<>>, rows |-> <<>>]
                  ELSE [of |-> of, rows |-> rows]

\* the entities of a view
entities(v) == [i \in 1..Len(v.rows) |-> list_of(v.of)[v.rows[i]]]

\* DisplayWorker(self.servers, search_box.text().lower(), ...): what
\* filter_servers() passes, and the locals of run() (`seen` is not in the
\* source: the states of the list that the passes of run() have read)
DisplayWorker ==
    [state |-> "running", servers |-> <<>>,
     search_text |-> lower(search_box), favorites_only |-> favorites_checkbox,
     region_name |-> region_filter, max_ping |-> max_ping,
     hide_empty |-> hide_empty_checkbox, hide_full |-> hide_full_checkbox,
     sort_column |-> table_sort_column, sort_order |-> table_sort_order,
     filtered |-> <<>>, favorites |-> <<>>, seen |-> {}]

\* filter_servers(): starts a DisplayWorker unless one is set
filter_servers(worker) == IF worker # None THEN worker ELSE DisplayWorker

\* the worker whose run() has returned
finished(worker) ==
    [worker EXCEPT !.state = "finished", !.servers = <<>>, !.filtered = <<>>,
                   !.favorites = <<>>, !.seen = {}]

\* `self.servers = servers` as the holders of the old list see it
detached_worker(worker) ==
    IF worker = None THEN None ELSE [worker EXCEPT !.servers = detached(@)]
detached_view(v) == view(detached(v.of), v.rows)
detached_events(queue) ==
    [i \in 1..Len(queue) |->
        IF queue[i].sig = "display_ready"
        THEN [queue[i] EXCEPT !.servers = detached_view(@)]
        ELSE queue[i]]

\* load_servers(): the Refresh button or the auto-refresh timer
load_servers ==
    /\ loads < MaxLoads
    /\ loads' = loads + 1
    /\ fetch_workers' = fetch_workers + 1
    /\ UNCHANGED <<platform_system, mw_servers, db_favorites, db_ping_history,
                   ping_workers, batch_timers, events, pings_completed, total_pings,
                   display_worker, now, handled>>
    /\ UNCHANGED <<master_vars, query_vars, ping_vars, display_vars>>
    /\ UNCHANGED <<MANUAL_SERVERS, bm_pc, bm_servers, bm_url, bm_page_count, bm_uuids,
                   bm_ret, fs_ret, bm_requests, bm_responses>>

\* `for server in servers: server.is_favorite = server.id in favorites`
mark_favorites(list, favorites) ==
    [k \in 1..Len(list) |-> [list[k] EXCEPT !.is_favorite = (list[k].id \in favorites)]]

\* ServerFetchWorker.run() against the aggregator: fetch_servers(),
\* get_favorites(), the marking loop and servers_fetched.emit
ServerFetchWorker_run(aggregator) ==
    /\ fetch_workers > 0
    /\ LET fetched == _fetch_battlemetrics_servers(aggregator, bm_uuids)
           list == fetch_servers(fetched.value, MANUAL_SERVERS)
       IN  /\ bm_uuids' = fetched.uuids
           /\ events' = Append(events,
                  IF list = Raised THEN servers_fetched(<<>>)
                  ELSE servers_fetched(mark_favorites(list.returns, db_favorites)))
    /\ fetch_workers' = fetch_workers - 1
    /\ UNCHANGED <<platform_system, mw_servers, db_favorites, db_ping_history,
                   ping_workers, batch_timers, pings_completed, total_pings,
                   display_worker, now, handled, loads>>
    /\ UNCHANGED <<master_vars, query_vars, ping_vars, display_vars>>
    /\ UNCHANGED <<MANUAL_SERVERS, bm_pc, bm_servers, bm_url, bm_page_count,
                   bm_ret, fs_ret, bm_requests, bm_responses>>

\* _ping_batch(start_idx, batch_size) on the list: the workers it starts and
\* the timer it sets
_ping_batch(list, start_idx, workers, timers) ==
    LET end_idx == IF start_idx + batch_size < Len(list) THEN start_idx + batch_size
                   ELSE Len(list)
    IN  [workers |-> StartWorkers(workers, list, start_idx, end_idx),
         timers |-> IF end_idx < Len(list) THEN BagAdd(timers, end_idx) ELSE timers]

\* _update_servers(servers), the slot of servers_fetched: the new list,
\* filter_servers() and _start_pinging()
_update_servers ==
    /\ Delivers("servers_fetched")
    /\ LET list == Head(events).servers
           batch == _ping_batch(list, 0, ping_workers, batch_timers)
       IN  /\ mw_servers' = list
           /\ display_worker' = filter_servers(detached_worker(display_worker))
           /\ total_pings' = Len(list)
           /\ pings_completed' = 0
           /\ ping_workers' = batch.workers
           /\ batch_timers' = batch.timers
    /\ displayed_servers' = detached_view(displayed_servers)
    /\ handled' = Head(events)
    /\ events' = detached_events(Tail(events))
    /\ UNCHANGED <<platform_system, db_favorites, db_ping_history, fetch_workers,
                   now, loads>>
    /\ UNCHANGED <<master_vars, query_vars, fetch_vars, ping_vars, widget_vars>>

\* a QTimer.singleShot set by _ping_batch fires: _ping_batch(end_idx, batch_size)
_ping_batch_timer(start_idx) ==
    /\ BagIn(start_idx, batch_timers)
    /\ LET batch == _ping_batch(mw_servers, start_idx, ping_workers,
                                BagRemove(batch_timers, start_idx))
       IN  /\ ping_workers' = batch.workers
           /\ batch_timers' = batch.timers
    /\ UNCHANGED <<platform_system, mw_servers, db_favorites, db_ping_history,
                   fetch_workers, events, pings_completed, total_pings,
                   display_worker, now, handled, loads>>
    /\ UNCHANGED <<master_vars, query_vars, fetch_vars, ping_vars, display_vars>>

\* PingWorker.run(): ping_server and
\* ping_completed.emit(id, latency if latency > 0 else 0, success)
PingWorker_run(worker, outcome) ==
    /\ BagIn(worker, ping_workers)
    /\ LET r == ping_server(outcome)
       IN  events' = Append(events,
                  ping_completed(worker.id,
                                 IF r.record.latency > 0 THEN r.record.latency ELSE 0,
                                 r.record.success))
    /\ ping_workers' = BagRemove(ping_workers, worker)
    /\ UNCHANGED <<platform_system, mw_servers, db_favorites, db_ping_history,
                   fetch_workers, batch_timers, pings_completed, total_pings,
                   display_worker, now, handled, loads>>
    /\ UNCHANGED <<master_vars, query_vars, fetch_vars, ping_vars, display_vars>>

\* the row add_ping_record inserts (without its timestamp and its row id)
ping_history_row(record) ==
    [server_id |-> record.server_id, latency |-> record.latency,
     success |-> record.success]

\* filter_servers() at the end of _on_ping_completed, when the round is over
round_over(completed, total, worker) ==
    IF completed >= total THEN filter_servers(worker) ELSE worker

_on_ping_completed_records_unknown_id ==
    /\ Delivers("ping_completed")
    /\ LET e == Head(events)
           k == first_with_id(mw_servers, e.server_id, 1)
       IN  /\ mw_servers' = IF k = 0 THEN mw_servers
                            ELSE [mw_servers EXCEPT ![k].latency = <<e.latency>>,
                                                    ![k].last_ping_time = <<now>>]
           /\ db_ping_history' =
                  BagAdd(db_ping_history,
                         ping_history_row(PingRecord(e.server_id, e.latency,
                                                     e.success, <<>>)))
           /\ now' = now + 1
    /\ pings_completed' = pings_completed + 1
    /\ display_worker' = round_over(pings_completed', total_pings, display_worker)
    /\ handled' = Head(events)
    /\ events' = Tail(events)
    /\ UNCHANGED <<platform_system, db_favorites, fetch_workers, ping_workers,
                   batch_timers, total_pings, loads>>
    /\ UNCHANGED <<master_vars, query_vars, fetch_vars, ping_vars, display_vars>>

\* _on_ping_completed(server_id, latency, success), the slot of ping_completed
_on_ping_completed ==
    /\ Delivers("ping_completed")
    /\ LET e == Head(events)
           k == first_with_id(mw_servers, e.server_id, 1)
       IN  IF k = 0
           THEN UNCHANGED <<mw_servers, db_ping_history, now>>
           ELSE /\ mw_servers' = [mw_servers EXCEPT ![k].latency = <<e.latency>>,
                                                    ![k].last_ping_time = <<now>>]
                /\ db_ping_history' =
                       BagAdd(db_ping_history,
                              ping_history_row(PingRecord(e.server_id, e.latency,
                                                          e.success, <<>>)))
                /\ now' = now + 1
    /\ pings_completed' = pings_completed + 1
    /\ display_worker' = round_over(pings_completed', total_pings, display_worker)
    /\ handled' = Head(events)
    /\ events' = Tail(events)
    /\ UNCHANGED <<platform_system, db_favorites, fetch_workers, ping_workers,
                   batch_timers, total_pings, loads>>
    /\ UNCHANGED <<master_vars, query_vars, fetch_vars, ping_vars, display_vars>>

\* toggle_favorite(server_id): the star button of a row
toggle_favorite(server_id) ==
    /\ LET k == first_with_id(mw_servers, server_id, 1)
       IN  /\ k # 0
           /\ IF mw_servers[k].is_favorite
              THEN /\ db_favorites' = db_favorites \ {server_id}
                   /\ mw_servers' = [mw_servers EXCEPT ![k].is_favorite = FALSE]
              ELSE /\ db_favorites' = db_favorites \cup {server_id}
                   /\ mw_servers' = [mw_servers EXCEPT ![k].is_favorite = TRUE]
    /\ display_worker' = filter_servers(display_worker)
    /\ UNCHANGED <<platform_system, db_ping_history, fetch_workers, ping_workers,
                   batch_timers, events, pings_completed, total_pings, now,
                   handled, loads>>
    /\ UNCHANGED <<master_vars, query_vars, fetch_vars, ping_vars, display_vars>>

\* _on_table_sort(column), a click on a header of the table: the order flips
\* on the current sort column, another column is taken ascending; then
\* filter_servers() with the new settings
_on_table_sort(column) ==
    /\ IF table_sort_column = column
       THEN /\ table_sort_order' = IF table_sort_order = AscendingOrder
                                   THEN DescendingOrder ELSE AscendingOrder
            /\ UNCHANGED table_sort_column
       ELSE /\ table_sort_column' = column
            /\ table_sort_order' = AscendingOrder
    /\ UNCHANGED <<search_box, favorites_checkbox, region_filter, max_ping,
                   hide_empty_checkbox, hide_full_checkbox, displayed_servers>>
    /\ display_worker' = IF display_worker # None THEN display_worker
                         ELSE DisplayWorker'
    /\ UNCHANGED <<platform_system, mw_servers, db_favorites, db_ping_history,
                   fetch_workers, ping_workers, batch_timers, events,
                   pings_completed, total_pings, now, handled, loads>>
    /\ UNCHANGED <<master_vars, query_vars, fetch_vars, ping_vars>>

\* _on_filter_changed(), the slot of the filter widgets' change signals, after
\* the user's edit has left the widgets showing `settings`:
\* _save_filter_settings() (the saved row is read by the next construction of
\* the window only) and filter_servers()
_on_filter_changed(settings) ==
    /\ ~WidgetsShow(settings)
    /\ search_box' = code_points(settings.search_text)
    /\ favorites_checkbox' = settings.favorites_only
    /\ region_filter' = settings.region
    /\ max_ping' = settings.max_ping
    /\ hide_empty_checkbox' = settings.hide_empty
    /\ hide_full_checkbox' = settings.hide_full
    /\ UNCHANGED <<table_sort_column, table_sort_order, displayed_servers>>
    /\ display_worker' = IF display_worker # None THEN display_worker
                         ELSE DisplayWorker'
    /\ UNCHANGED <<platform_system, mw_servers, db_favorites, db_ping_history,
                   fetch_workers, ping_workers, batch_timers, events,
                   pings_completed, total_pings, now, handled, loads>>
    /\ UNCHANGED <<master_vars, query_vars, fetch_vars, ping_vars>>

\* DisplayWorker.run() when nothing else runs between its passes: the filter
\* loop, the sort, the two favorites passes and display_ready.emit
DisplayWorker_run ==
    /\ display_worker # None
    /\ display_worker.state = "running"
    /\ events' = Append(events,
           display_ready(view(display_worker.servers,
                              run_view(list_of(display_worker.servers),
                                       display_worker))))
    /\ display_worker' = finished(display_worker)
    /\ UNCHANGED <<platform_system, mw_servers, db_favorites, db_ping_history,
                   fetch_workers, ping_workers, batch_timers, pings_completed,
                   total_pings, now, handled, loads>>
    /\ UNCHANGED <<master_vars, query_vars, fetch_vars, ping_vars, display_vars>>

\* what a pass of DisplayWorker.run() leaves alone
DisplayWorker_frame ==
    /\ UNCHANGED <<platform_system, mw_servers, db_favorites, db_ping_history,
                   fetch_workers, ping_workers, batch_timers, pings_completed,
                   total_pings, now, handled, loads>>
    /\ UNCHANGED <<master_vars, query_vars, fetch_vars, ping_vars, display_vars>>

\* DisplayWorker.run(), first pass: `for server in self.servers: ...
\* filtered.append(server)`
DisplayWorker_filter ==
    /\ display_worker # None
    /\ display_worker.state = "running"
    /\ LET list == list_of(display_worker.servers)
       IN  display_worker' =
               [display_worker EXCEPT !.state = "filtered",
                                      !.filtered = filtered_of(list, display_worker),
                                      !.seen = {list}]
    /\ UNCHANGED events
    /\ DisplayWorker_frame

\* DisplayWorker.run(), second pass: `filtered.sort(key=..., reverse=...)`
DisplayWorker_sort ==
    /\ display_worker # None
    /\ display_worker.state = "filtered"
    /\ LET list == list_of(display_worker.servers)
       IN  display_worker' =
               [display_worker EXCEPT
                   !.state = "sorted",
                   !.filtered = sorted_by(list, @, display_worker.sort_column,
                                          display_worker.sort_order),
                   !.seen = @ \cup {list}]
    /\ UNCHANGED events
    /\ DisplayWorker_frame

\* DisplayWorker.run(), third pass: `favorites = [s for s in filtered if
\* s.is_favorite]`
DisplayWorker_favorites ==
    /\ display_worker # None
    /\ display_worker.state = "sorted"
    /\ LET list == list_of(display_worker.servers)
       IN  display_worker' =
               [display_worker EXCEPT
                   !.state = "favorites",
                   !.favorites = favorites_of(list, display_worker.filtered),
                   !.seen = @ \cup {list}]
    /\ UNCHANGED events
    /\ DisplayWorker_frame

\* DisplayWorker.run(), last pass: `non_favorites = [s for s in filtered if
\* not s.is_favorite]`, `filtered = favorites + non_favorites` and
\* display_ready.emit(filtered)
DisplayWorker_emit ==
    /\ display_worker # None
    /\ display_worker.state = "favorites"
    /\ LET list == list_of(display_worker.servers)
       IN  events' = Append(events,
               display_ready(view(display_worker.servers,
                                  display_worker.favorites
                                      \o non_favorites_of(list, display_worker.filtered))))
    /\ display_worker' = finished(display_worker)
    /\ DisplayWorker_frame

_on_display_ready_keeps_view_as_catalog ==
    /\ Delivers("display_ready")
    /\ display_worker' = None
    /\ LET emitted == Head(events).servers
           shown == view(emitted.of,
                         display_rows(list_of(emitted.of), emitted.rows,
                                      table_sort_column, table_sort_order))
       IN  /\ mw_servers' = entities(shown)
           /\ displayed_servers' = view(<<>>, Indices(shown.rows))
    /\ handled' = Head(events)
    /\ events' = Tail(events)
    /\ UNCHANGED <<platform_system, db_favorites, db_ping_history,
                   fetch_workers, ping_workers, batch_timers, pings_completed,
                   total_pings, now, loads>>
    /\ UNCHANGED <<master_vars, query_vars, fetch_vars, ping_vars, widget_vars>>

\* _on_display_ready(servers), the slot of display_ready:
\* `self.display_worker = None` and display_servers(servers), which sorts the
\* view it was given by the table's sort settings, puts the favorites first
\* and shows it
_on_display_ready ==
    /\ Delivers("display_ready")
    /\ display_worker' = None
    /\ LET emitted == Head(events).servers
       IN  displayed_servers' =
               view(emitted.of,
                    display_rows(list_of(emitted.of), emitted.rows,
                                 table_sort_column, table_sort_order))
    /\ handled' = Head(events)
    /\ events' = Tail(events)
    /\ UNCHANGED <<platform_system, mw_servers, db_favorites, db_ping_history,
                   fetch_workers, ping_workers, batch_timers, pings_completed,
                   total_pings, now, loads>>
    /\ UNCHANGED <<master_vars, query_vars, fetch_vars, ping_vars, widget_vars>>

-----------------------------------------------------------------------------
(* The aggregator as the window's fetches meet it *)

PageOf(records, links) == Json([data |-> records, links |-> links])

\* what the aggregator answers to the requests of one fetch_servers call, the
\* last answer standing for every later one.  No catalog here is longer than
\* one batch of pings, so no _ping_batch sets its timer.
Aggregators ==
    {<<PageOf(<<RecordAlpha, RecordBravo>>, [next |-> None])>>,
     <<PageOf(<<RecordAlpha>>, [next |-> NextUrl]), PageOf(<<RecordAlpha>>, <<>>)>>,
     <<PageOf(<<RecordAlpha, RecordNullAttributes, RecordBravo>>, [next |-> None])>>,
     <<Failing("timeout")>>}

\* the ids a star button may carry
StarIds == {RecordAlpha.id}

NextWindow ==
    \/ load_servers
    \/ fetch_workers > 0 /\ \E aggregator \in Aggregators : ServerFetchWorker_run(aggregator)
    \/ _update_servers
    \/ \E worker \in DOMAIN ping_workers : \E outcome \in PingOutcomesAt(worker.ip) :
           PingWorker_run(worker, outcome)
    \/ _on_ping_completed
    \/ \E server_id \in StarIds : toggle_favorite(server_id)
    \/ DisplayWorker_run
    \/ _on_display_ready

\* the favorites table as an earlier run of the program has left it
FavoritesAtStart == {{}, {RecordAlpha.id}}

InitWindow ==
    /\ MasterInitial
    /\ QueryIdle
    /\ FetchIdle(<<>>)
    /\ \E favorites \in FavoritesAtStart : WindowInitial("Linux", favorites)
    /\ ProbeIdle
    /\ DisplayInitial(DefaultSettings)

SpecWindow == InitWindow /\ [][NextWindow]_vars

\* The window across refreshes that drop a server from the catalog: the second
\* aggregator no longer lists the server of the first one's first record.
RefreshAggregators ==
    {<<PageOf(<<RecordAlpha, RecordBravo>>, [next |-> None])>>,
     <<PageOf(<<RecordBravo>>, [next |-> None])>>}

NextRefresh ==
    \/ load_servers
    \/ fetch_workers > 0 /\ \E aggregator \in RefreshAggregators : ServerFetchWorker_run(aggregator)
    \/ _update_servers
    \/ \E worker \in DOMAIN ping_workers : \E outcome \in PingOutcomesAt(worker.ip) :
           PingWorker_run(worker, outcome)
    \/ _on_ping_completed
    \/ \E server_id \in StarIds : toggle_favorite(server_id)
    \/ DisplayWorker_run
    \/ _on_display_ready

SpecRefresh == Init /\ [][NextRefresh]_vars

\* The window over refreshes after which a server is gone for good: the first
\* fetch lists two servers, every later one only the second of them (uuid4
\* has been called once per request of the earlier fetches).
StragglerAggregators ==
    IF bm_uuids = 0 THEN {<<PageOf(<<RecordAlpha, RecordBravo>>, [next |-> None])>>}
    ELSE {<<PageOf(<<RecordBravo>>, [next |-> None])>>}

NextStraggler ==
    \/ load_servers
    \/ fetch_workers > 0 /\ \E aggregator \in StragglerAggregators : ServerFetchWorker_run(aggregator)
    \/ _update_servers
    \/ \E worker \in DOMAIN ping_workers : \E outcome \in PingOutcomesAt(worker.ip) :
           PingWorker_run(worker, outcome)
    \/ _on_ping_completed
    \/ DisplayWorker_run
    \/ _on_display_ready

SpecStraggler == Init /\ [][NextStraggler]_vars

\* One probing round, no refresh: a catalog that fits one batch, one with the
\* same id twice, and one of 20 servers (the aggregator repeats a page of two
\* on each of the ten requests), which takes three batches on Windows and two
\* elsewhere.
RoundAggregators ==
    {<<PageOf(<<RecordAlpha, RecordBravo>>, [next |-> None])>>,
     <<PageOf(<<RecordAlpha>>, [next |-> NextUrl]), PageOf(<<RecordAlpha>>, <<>>)>>,
     <<PageOf(<<RecordBravo, RecordBravo>>, [next |-> NextUrl])>>}

NextRound ==
    \/ fetch_workers > 0 /\ \E aggregator \in RoundAggregators : ServerFetchWorker_run(aggregator)
    \/ _update_servers
    \/ \E start_idx \in DOMAIN batch_timers : _ping_batch_timer(start_idx)
    \/ \E worker \in DOMAIN ping_workers : \E outcome \in PingOutcomesAt(worker.ip) :
           PingWorker_run(worker, outcome)
    \/ _on_ping_completed
    \/ DisplayWorker_run
    \/ _on_display_ready

InitRound ==
    /\ MasterInitial
    /\ QueryIdle
    /\ FetchIdle(<<>>)
    /\ \E system \in {"Windows", "Linux"} : WindowInitial(system, {})
    /\ ProbeIdle
    /\ DisplayInitial(DefaultSettings)

SpecRound == InitRound /\ [][NextRound]_vars

\* threads that can run do run, and the event loop and the timers go on
FairSpecRound == SpecRound /\ WF_vars(NextRound)

\* The window on Windows over refreshes of a catalog that takes more than one
\* batch: every fetch lists the same 10 servers (the aggregator repeats a page
\* of one on each of the ten requests).
ChainAggregators == {<<PageOf(<<RecordBravo>>, [next |-> NextUrl])>>}

NextChains ==
    \/ load_servers
    \/ fetch_workers > 0 /\ \E aggregator \in ChainAggregators : ServerFetchWorker_run(aggregator)
    \/ _update_servers
    \/ \E start_idx \in DOMAIN batch_timers : _ping_batch_timer(start_idx)
    \/ \E worker \in DOMAIN ping_workers : \E outcome \in PingOutcomesAt(worker.ip) :
           PingWorker_run(worker, outcome)
    \/ _on_ping_completed
    \/ DisplayWorker_run
    \/ _on_display_ready

InitChains ==
    /\ MasterInitial
    /\ QueryIdle
    /\ FetchIdle(<<>>)
    /\ WindowInitial("Windows", {})
    /\ ProbeIdle
    /\ DisplayInitial(DefaultSettings)

SpecChains == InitChains /\ [][NextChains]_vars

-----------------------------------------------------------------------------
(* DisplayWorker.run and display_servers as functions of the list, of the  *)
(* filter settings and of the sort settings                                *)

\* the longest list given to a DisplayWorker
MaxCatalog == 2

\* the k-th entity of a list: the names differ in case and tie, the player
\* counts follow the name (an empty server and a full one)
Entity(k, name, latency, is_favorite) ==
    [GameServer(<<k>>, name, "1.2.3.4", 7777, IF name = "alpha" THEN 0 ELSE 64, 64,
                "M1", IF name = "alpha" THEN "US" ELSE "DE", "0.256.1304")
        EXCEPT !.latency = latency, !.is_favorite = is_favorite]

\* never probed, probed with 0 (a connect under one millisecond, or a failed
\* probe), probed under and over the default limit
ViewLatencies == {<<>>, <<0>>, <<35>>, <<500>>}

Entities(k) ==
    {Entity(k, name, latency, is_favorite) :
        name \in {"alpha", "Bravo"}, latency \in ViewLatencies,
        is_favorite \in BOOLEAN}

RECURSIVE Catalogs(_)
Catalogs(n) ==
    IF n = 0 THEN {<<>>}
    ELSE Catalogs(n - 1)
         \cup {Append(list, e) : list \in {c \in Catalogs(n - 1) : Len(c) = n - 1},
                                 e \in Entities(n)}

\* the settings the filters are tried with
ViewSettings ==
    {DefaultSettings,
     [DefaultSettings EXCEPT !.favorites_only = TRUE],
     [DefaultSettings EXCEPT !.search_text = "RAV"],
     [DefaultSettings EXCEPT !.region = "Europe"],
     [DefaultSettings EXCEPT !.max_ping = 0],
     [DefaultSettings EXCEPT !.hide_empty = TRUE, !.hide_full = TRUE]}

\* the columns of the table (0 the star, 1 name, 2 players, 3 ping, 4..6 map,
\* region and version)
SortColumns == 0..6

SortOrders == {AscendingOrder, DescendingOrder}

\* filter_servers() has just made a DisplayWorker over some list, under some
\* settings of the filters and of the table's sort
InitView ==
    /\ MasterInitial
    /\ QueryIdle
    /\ FetchIdle(<<>>)
    /\ ProbeIdle
    /\ platform_system = "Linux"
    /\ mw_servers = <<>>
    /\ db_favorites = {}
    /\ db_ping_history = EmptyBag
    /\ fetch_workers = 0
    /\ ping_workers = EmptyBag
    /\ batch_timers = EmptyBag
    /\ events = <<>>
    /\ pings_completed = 0
    /\ total_pings = 0
    /\ now = 0
    /\ handled = None
    /\ loads = 0
    /\ \E settings \in ViewSettings : WidgetsShow(settings)
    /\ table_sort_column \in SortColumns
    /\ table_sort_order \in SortOrders
    /\ displayed_servers = [of |-> <<>>, rows |-> <<>>]
    /\ \E list \in Catalogs(MaxCatalog) :
           display_worker = [DisplayWorker EXCEPT !.servers = <<list>>]

NextView ==
    \/ DisplayWorker_run
    \/ _on_display_ready

SpecView == InitView /\ [][NextView]_vars

\* The window with the passes of DisplayWorker.run() as the steps of its
\* thread, which the main thread's slots and handlers run between: one fetch
\* of two servers, their probes, the star of the first server and the header
\* of the ping column.
DisplayAggregators == {<<PageOf(<<RecordAlpha, RecordBravo>>, [next |-> None])>>}

NextDisplay ==
    \/ fetch_workers > 0 /\ \E aggregator \in DisplayAggregators : ServerFetchWorker_run(aggregator)
    \/ _update_servers
    \/ \E worker \in DOMAIN ping_workers : \E outcome \in PingOutcomesAt(worker.ip) :
           PingWorker_run(worker, outcome)
    \/ _on_ping_completed
    \/ \E server_id \in StarIds : toggle_favorite(server_id)
    \/ _on_table_sort(3)
    \/ DisplayWorker_filter
    \/ DisplayWorker_sort
    \/ DisplayWorker_favorites
    \/ DisplayWorker_emit
    \/ _on_display_ready

\* an earlier run of the program has left the second server a favorite
InitDisplay ==
    /\ MasterInitial
    /\ QueryIdle
    /\ FetchIdle(<<>>)
    /\ WindowInitial("Linux", {RecordBravo.id})
    /\ ProbeIdle
    /\ DisplayInitial(DefaultSettings)

SpecDisplay == InitDisplay /\ [][NextDisplay]_vars

\* The window while the user types a search text: one fetch of two servers,
\* their probes, the runs of the DisplayWorker, and the edit of the search box
\* at any moment.
SearchTyped == [DefaultSettings EXCEPT !.search_text = "RAV"]

ProgramFilter ==
    \/ fetch_workers > 0 /\ \E aggregator \in DisplayAggregators : ServerFetchWorker_run(aggregator)
    \/ _update_servers
    \/ \E worker \in DOMAIN ping_workers : \E outcome \in PingOutcomesAt(worker.ip) :
           PingWorker_run(worker, outcome)
    \/ _on_ping_completed
    \/ DisplayWorker_run
    \/ _on_display_ready

NextFilter ==
    \/ ProgramFilter
    \/ _on_filter_changed(SearchTyped)

SpecFilter == InitDisplay /\ [][NextFilter]_vars

\* the threads and the event loop go on; the user need not do anything
FairSpecFilter == SpecFilter /\ WF_vars(ProgramFilter)

-----------------------------------------------------------------------------
(* Properties of the master-server discovery *)

\* C1: whatever the master replies, a call of _query_master sends at most
\* max_iterations (100) requests, and every call that entered its loop returns.
C1_AtMostMaxIterationsThenReturns ==
    /\ [](sends <= max_iterations)
    /\ (pc = "qm_loop") ~> (pc = "qm_returned")

\* a master that never sent the end marker was asked exactly 100 times
C1_CapHit ==
    /\ pc = "qm_returned"
    /\ stop = "cap"
    /\ sends = max_iterations

\* C2: when a reply holds the end marker, _query_master returns every non-marker
\* entry parsed up to the marker: those of the earlier replies and those of the
\* same reply that precede the marker.
C2_MarkerReturnsAllParsed ==
    (pc = "qm_returned" /\ stop = "end_marker") => ret = parsed

HasMarker(list) == \E k \in 1..Len(list) : list[k] = <<ZeroIp, 0>>

\* C3: neither the list _query_master returns nor the list get_server_list
\* returns ever holds the entry ("0.0.0.0", 0).
C3_NoMarkerInResult ==
    /\ pc \in {"qm_returned", "gsl_next", "done"} => ~HasMarker(ret)
    /\ result # NotReturned => ~HasMarker(result)

\* a reply with entries and the marker was received after a full page, and a
\* non-empty list came back
C3_MarkerSeenAndListReturned ==
    /\ pc = "done"
    /\ stop = "end_marker"
    /\ batch_servers # <<>>
    /\ result # <<>>

EmptyOrRaised(a) == a.raised \/ a.servers = <<>>

\* C4: get_server_list tries the masters in list order, returns exactly the list
\* of the first master whose discovery is non-empty (nothing of another master
\* is merged in), and returns [] only when every master gave [] or raised.
C4_FirstNonEmptyWins ==
    pc = "done" =>
        LET n == Len(attempts)
        IN  /\ n = master_idx
            /\ \A k \in 1..n : attempts[k].addr = MASTER_SERVERS[k]
            /\ \A k \in 1..(n - 1) : EmptyOrRaised(attempts[k])
            /\ IF result = <<>>
               THEN /\ n = Len(MASTER_SERVERS)
                    /\ \A k \in 1..n : EmptyOrRaised(attempts[k])
               ELSE /\ n >= 1
                    /\ ~attempts[n].raised
                    /\ result = attempts[n].servers

\* the first master raised, the second gave nothing, the third gave the result
C4_ThirdMasterWins ==
    /\ pc = "done"
    /\ Len(attempts) = 3
    /\ attempts[1].raised
    /\ ~attempts[2].raised
    /\ result # <<>>

\* C5 as stated: after a receive timeout the attempt is not the result and the
\* next master is tried while one remains.
C5_TimeoutTriesNextMaster ==
    (pc = "done" /\ stop = "timeout") =>
        (master_idx = Len(MASTER_SERVERS) /\ result = <<>>)

\* C5 amended: a receive timeout ends the attempt with the entries of the earlier
\* rounds.  In the first round that is [], and the next master is tried while one
\* remains; in a later round the accumulated entries are the result of
\* get_server_list and no further master is tried.
C5_TimeoutEndsAttemptWithAccumulated ==
    (stop = "timeout" /\ pc \in {"qm_returned", "gsl_next", "done"}) =>
        /\ ret = parsed
        /\ (ret = <<>>) <=> (sends = 1)
        /\ pc = "gsl_next" => ret = <<>>
        /\ pc = "done" =>
              IF ret = <<>>
              THEN master_idx = Len(MASTER_SERVERS) /\ result = <<>>
              ELSE result = ret

\* the first master timed out in a later round and its entries were returned
C5_TimedOutAttemptReturned ==
    /\ pc = "done"
    /\ stop = "timeout"
    /\ master_idx = 1
    /\ result # <<>>
    /\ result = parsed

-----------------------------------------------------------------------------
(* Properties of the info query *)

\* A2SQuerier.query_server received a datagram and handed it to _parse_a2s_info
Decoded == q_impl = "A2SQuerier" /\ q_event = "data"

ShorterThan5(d) == Len(d) < 5

HeaderWrong(d) == Len(d) >= 4 /\ SubSeq(d, 1, 4) # <<255, 255, 255, 255>>

TagWrong(d) == Len(d) >= 5 /\ d[5] # 73

\* C6: a buffer shorter than 5 bytes, or whose first 4 bytes are not FF FF FF FF,
\* or whose 5th byte is not 0x49, decodes to None and never to a ServerInfo.
C6_BadFrameIsNone ==
    (Decoded /\ (ShorterThan5(q_data) \/ HeaderWrong(q_data) \/ TagWrong(q_data)))
        => q_result = None

\* a full response with only its type tag overwritten was refused
C6_WrongTagRefused ==
    /\ Decoded
    /\ ~HeaderWrong(q_data)
    /\ TagWrong(q_data)
    /\ \E w \in WellFormedResponses :
          /\ Len(w) = Len(q_data)
          /\ \A k \in 1..Len(w) : k # 5 => w[k] = q_data[k]
    /\ q_result = None

\* The sequential walk of the wire format over d reads past the end of d: one
\* of the four strings or the version has no terminator, or the app id or the
\* seven fixed bytes do not fit.
WalkOverruns(d) ==
    LET e1 == find_nul(d, 6)
        e2 == find_nul(d, e1 + 1)
        e3 == find_nul(d, e2 + 1)
        e4 == find_nul(d, e3 + 1)
        fixed == e4 + 1 + 2
    IN  \/ e1 = -1
        \/ e2 = -1
        \/ e3 = -1
        \/ e4 = -1
        \/ fixed > Len(d)
        \/ fixed + 7 > Len(d)
        \/ find_nul(d, fixed + 7) = -1

FrameOk(d) == ~ShorterThan5(d) /\ ~HeaderWrong(d) /\ ~TagWrong(d)

\* C7: a buffer with a valid header and tag in which the walk would read past
\* the end decodes to None, never to a ServerInfo of partial or defaulted fields.
C7_OverrunIsNone ==
    (Decoded /\ FrameOk(q_data) /\ WalkOverruns(q_data)) => q_result = None

\* the text attributes of a ServerInfo
TextAttributes == {"name", "map", "game", "server_type", "environment", "version"}

\* the fields of f other than the game directory are those of info
RecoversAllButFolder(info, f) ==
    /\ info.name = f.name
    /\ info.map = f.map
    /\ info.game = f.game
    /\ info.players = f.players
    /\ info.max_players = f.max_players
    /\ info.bots = f.bots
    /\ info.server_type = chr(f.server_type)
    /\ info.environment = chr(f.environment)
    /\ info.visibility = f.visibility
    /\ info.vac = f.vac
    /\ info.version = f.version

C9_SameInfoRequest ==
    (q_impl \in {"A2SQuerier", "A2SQueryer", "A2SQuery"} /\ q_event # "socket_error")
        => q_request = <<255, 255, 255, 255, 84,
                         83, 111, 117, 114, 99, 101, 32,
                         69, 110, 103, 105, 110, 101, 32,
                         81, 117, 101, 114, 121, 0>>

\* the script querier that builds its request with struct.pack has sent it
C9_PackedRequestSent ==
    /\ q_impl = "A2SQueryer"
    /\ q_event = "data"
    /\ q_request = A2S_INFO_REQUEST
    /\ q_request = A2SQuery_request

-----------------------------------------------------------------------------
(* Properties of the sockets *)

\* C11: every socket a query or probe operation has opened is closed once the
\* operation has returned, on every exit path: _query_master outside its loop,
\* the A2S query functions after their call, ping_server under every outcome.
C11_EverySocketClosedOnReturn ==
    /\ pc # "qm_loop" => sock # "open"
    /\ q_impl # "" => q_sock # "open"
    /\ \A outcome \in PingOutcomes : ping_server(outcome).sock # "open"

-----------------------------------------------------------------------------
(* Properties of the aggregator fetch *)

\* the page carries a non-null links.next
HasNext(document) ==
    /\ "links" \in DOMAIN document
    /\ document.links # None
    /\ "next" \in DOMAIN document.links
    /\ document.links.next # None

\* no request of the call has failed so far: each got a JSON document
NoRequestFailed == \A k \in 1..Len(bm_responses) : "json" \in DOMAIN bm_responses[k]

\* the request made last failed at the network level
LastRequestFailed ==
    /\ bm_responses # <<>>
    /\ "fail" \in DOMAIN bm_responses[Len(bm_responses)]

\* the records of the document
RecordsOf(document) == IF "data" \in DOMAIN document THEN document.data ELSE <<>>

\* the records of the documents received, in page order and record order
RECURSIVE RecordsUpTo(_)
RecordsUpTo(k) ==
    IF k = 0 THEN <<>> ELSE RecordsUpTo(k - 1) \o RecordsOf(bm_responses[k].json)

\* the entity was built from the record
BuiltFrom(entity, record) ==
    /\ "id" \in DOMAIN record => entity.id = record.id
    /\ ("attributes" \in DOMAIN record /\ record.attributes # None
            /\ "name" \in DOMAIN record.attributes)
          => entity.name = record.attributes.name

\* C12: one call of _fetch_battlemetrics_servers issues at most max_pages (10)
\* page requests, and when every response carried a non-null links.next the
\* call has issued exactly 10 requests and has returned.
C12_AtMostMaxPagesAndExactlyTenWhenAlwaysNext ==
    /\ bm_requests <= max_pages
    /\ (/\ bm_pc = "returned"
        /\ NoRequestFailed
        /\ \A k \in 1..Len(bm_responses) : HasNext(bm_responses[k].json))
          => (bm_requests = max_pages /\ bm_ret # Raised)

\* C13: when no request failed, the call returns one entity per record of pages
\* 1..k, in page order and record order, where page k is the first one without
\* a next link or the 10th page, and page k is the last one requested.
C13_ReturnsRecordsOfPagesUpToFirstWithoutNext ==
    (bm_pc = "returned" /\ NoRequestFailed) =>
        LET k == Len(bm_responses)
            records == RecordsUpTo(k)
        IN  /\ bm_requests = k
            /\ \A j \in 1..(k - 1) : HasNext(bm_responses[j].json)
            /\ k = max_pages \/ ~HasNext(bm_responses[k].json)
            /\ bm_ret # Raised
            /\ Len(bm_ret.returns) = Len(records)
            /\ \A j \in 1..Len(records) : BuiltFrom(bm_ret.returns[j], records[j])

\* the record has an id, an attributes object and a details object
WellFormedRecord(record) ==
    /\ {"id", "attributes"} \subseteq DOMAIN record
    /\ record.attributes # None
    /\ "details" \in DOMAIN record.attributes
    /\ record.attributes.details # None

\* C14: a malformed record never fails the fetch: when no request failed,
\* fetch_servers returns, and what it returns holds an entity for every other
\* record of every page.
C14_MalformedRecordNeverFailsTheFetch ==
    (bm_pc = "returned" /\ NoRequestFailed) =>
        /\ fs_ret # Raised
        /\ \A k \in 1..Len(bm_responses) :
              LET records == RecordsOf(bm_responses[k].json)
              IN  \A j \in 1..Len(records) :
                      WellFormedRecord(records[j]) =>
                          \E e \in 1..Len(fs_ret.returns) :
                              BuiltFrom(fs_ret.returns[e], records[j])

\* what fetch_servers returns when the aggregator answers with one page that
\* holds no record
ReturnedWhenNoServerExists ==
    fetch_servers(_fetch_battlemetrics_servers(<<Json([data |-> <<>>])>>, 0).value,
                  MANUAL_SERVERS)

\* C15: what fetch_servers hands to its caller after a network-level failure
\* differs from what it hands over after a successful fetch that found zero
\* servers.
C15_FailedFetchDiffersFromEmptyFetch ==
    (bm_pc = "returned" /\ LastRequestFailed) => fs_ret # ReturnedWhenNoServerExists

\* C16: when the request for page k fails at the network level,
\* _fetch_battlemetrics_servers returns the empty list, whatever pages 1..k-1
\* held, and fetch_servers returns exactly the manual entries.
C16_FailedPageGivesOnlyManualEntries ==
    (bm_pc = "returned" /\ LastRequestFailed) =>
        /\ bm_ret = Returns(<<>>)
        /\ fs_ret # Raised
        /\ Len(fs_ret.returns) = Len(MANUAL_SERVERS)
        /\ \A k \in 1..Len(MANUAL_SERVERS) :
              /\ fs_ret.returns[k].ip = MANUAL_SERVERS[k].ip
              /\ fs_ret.returns[k].port = MANUAL_SERVERS[k].port
              /\ fs_ret.returns[k].id[1] = "manual_"

\* the request for a page after the first has failed when entities of the
\* earlier pages were in hand and manual servers are configured
C16_LaterPageFailedAfterRecords ==
    /\ bm_pc = "returned"
    /\ LastRequestFailed
    /\ Len(bm_responses) >= 2
    /\ bm_servers # <<>>
    /\ MANUAL_SERVERS # <<>>


-----------------------------------------------------------------------------
(* Properties of the catalog of the window *)

\* the step is the main thread running the slot of the signal queued first
SlotRuns(sig) == Delivers(sig) /\ events' = Tail(events)

\* C17: in every reachable state the catalog holds at most one entity per id.
C17_AtMostOneEntityPerId ==
    \A i, j \in 1..Len(mw_servers) : mw_servers[i].id = mw_servers[j].id => i = j

\* C18: when _update_servers replaces the catalog, every entity whose id was in
\* the previous snapshot keeps the latency and the last-probed timestamp it
\* had there.
C18_ReplacementKeepsLatencyAndTimestamp ==
    [][SlotRuns("servers_fetched") =>
          \A i \in 1..Len(mw_servers), j \in 1..Len(mw_servers') :
              mw_servers[i].id = mw_servers'[j].id =>
                  /\ mw_servers'[j].latency = mw_servers[i].latency
                  /\ mw_servers'[j].last_ping_time = mw_servers[i].last_ping_time]_vars

\* C19: whenever _update_servers replaces the catalog, every entity of the new
\* snapshot whose id is a favorite at that moment reports is_favorite = TRUE,
\* however toggle_favorite was interleaved with the fetch.
C19_FavoritedBeforeReplacementStaysFavorite ==
    [][SlotRuns("servers_fetched") =>
          \A j \in 1..Len(mw_servers') :
              mw_servers'[j].id \in db_favorites => mw_servers'[j].is_favorite]_vars

\* C20: a probe result for an id that is not in the current snapshot leaves the
\* catalog as it was (same entities, latencies, timestamps and favorite flags)
\* and writes no ping record.
C20_ResultForAbsentIdChangesNothing ==
    [][(SlotRuns("ping_completed") /\ first_with_id(mw_servers, Head(events).server_id, 1) = 0)
          => UNCHANGED <<mw_servers, db_ping_history, db_favorites>>]_vars

\* the slot has just handled the result of a probe whose id is not in the
\* snapshot, after a refresh replaced the one the probe was started for
C20_StragglerHandled ==
    /\ "server_id" \in DOMAIN handled
    /\ first_with_id(mw_servers, handled.server_id, 1) = 0
    /\ loads > 0
    /\ mw_servers # <<>>


-----------------------------------------------------------------------------
(* Properties of the probes *)

\* C24: after a failed probe has been applied to the catalog, the entity's
\* latency is the failure sentinel -1.
C24_FailedProbeStoresMinusOne ==
    [][(SlotRuns("ping_completed") /\ ~Head(events).success
            /\ first_with_id(mw_servers, Head(events).server_id, 1) # 0)
          => mw_servers'[first_with_id(mw_servers, Head(events).server_id, 1)].latency
                 = <<-1>>]_vars

\* C25: ping_server never raises; the record it returns has success = TRUE and
\* latency >= 0, or success = FALSE, latency = -1 and a non-empty error_message.
C25_PingServerReturnsWellFormedRecord ==
    ping_outcome # None =>
        /\ ping_result # Raised
        /\ \/ ping_result.success /\ ping_result.latency >= 0
           \/ /\ ~ping_result.success
              /\ ping_result.latency = -1
              /\ ping_result.error_message # <<>>
              /\ ping_result.error_message[1] # <<>>

\* connect has raised an exception that is not an OSError and the call has returned
C25_OtherErrorReturned == ping_outcome = [connect |-> "error"] /\ ping_result # None

\* C26: a refused connection gives success = FALSE with a classification other
\* than the timeout one; a connection that times out gives the timeout one.
C26_RefusedIsNotTimeout ==
    /\ ping_outcome = [connect |-> "refused"] =>
           ~ping_result.success /\ ping_result.error_message # <<ConnectionTimeout>>
    /\ ping_outcome = [connect |-> "timeout"] =>
           ~ping_result.success /\ ping_result.error_message = <<ConnectionTimeout>>

\* a probe of a port nobody listens on has returned
C26_RefusedReturned == ping_outcome = [connect |-> "refused"] /\ ~ping_result.success


-----------------------------------------------------------------------------
(* Properties of a probing round *)

\* the number of probe results written for the id
ResultsFor(server_id) ==
    BagCardinality([row \in {r \in DOMAIN db_ping_history : r.server_id = server_id}
                       |-> db_ping_history[row]])

\* the number of probe results the k-th server of the snapshot has received
Received(k) ==
    IF first_with_id(mw_servers, mw_servers[k].id, 1) = k
    THEN ResultsFor(mw_servers[k].id) ELSE 0

\* C27: at every moment the number of PingWorkers that have been started and
\* have not finished is at most the batch size.
C27_AtMostBatchSizeProbesRunning == BagCardinality(ping_workers) <= batch_size

\* C29: in a round without refresh, every server of the snapshot eventually has
\* received exactly one probe result, and never more than one.
C29_EveryServerGetsExactlyOneResult ==
    /\ [](\A k \in DOMAIN mw_servers : Received(k) <= 1)
    /\ [](mw_servers # <<>> => <>(\A k \in DOMAIN mw_servers : Received(k) = 1))

-----------------------------------------------------------------------------
(* Properties of the views *)

\* the running DisplayWorker emits display_ready in this step
Emits ==
    /\ Len(events') = Len(events) + 1
    /\ events'[Len(events')].sig = "display_ready"

\* the list the worker was given, and the rows of the view it emits
WorkerList == list_of(display_worker.servers)
EmittedRows == events'[Len(events')].servers.rows

Range(seq) == {seq[i] : i \in DOMAIN seq}

\* the entity has no successful probe: never probed, or 0 from a failed probe
Unprobed(server) == server.latency = <<>> \/ server.latency[1] <= 0

\* C30: the max-ping filter removes no entity without a successful probe
\* (latency null, or that of a failed probe), whatever the limit: of the
\* entities that pass the other filters, the view lacks exactly those with a
\* measured positive latency above the limit.
C30_MaxPingFilterKeepsUnprobed ==
    [][Emits =>
         \A k \in DOMAIN WorkerList :
            LET server == WorkerList[k]
            IN  /\ (Unprobed(server) /\ other_filters_keep(server, display_worker))
                       => k \in Range(EmittedRows)
                /\ (other_filters_keep(server, display_worker)
                        /\ k \notin Range(EmittedRows))
                       => /\ server.latency # <<>>
                          /\ server.latency[1] > 0
                          /\ server.latency[1] > display_worker.max_ping]_vars

\* a view was emitted under the limit 0 that holds a never-probed entity and
\* one probed with 0, and lacks an entity probed with 35 ms
C30_UnprobedShownUnderLimitZero ==
    /\ events # <<>>
    /\ Head(events).sig = "display_ready"
    /\ max_ping = 0
    /\ LET v == Head(events).servers
       IN  /\ Len(v.rows) = 1
           /\ Len(list_of(v.of)) = 2
           /\ Unprobed(list_of(v.of)[v.rows[1]])
           /\ \E k \in DOMAIN list_of(v.of) : list_of(v.of)[k].latency = <<35>>

\* C22: in a view sorted by latency, ascending, every entity whose latency is
\* unmeasured (null) comes after every entity with a measured latency, a
\* measured 0 included.
C22_UnmeasuredLatencyLast ==
    [][(Emits /\ display_worker.sort_column = 3
              /\ display_worker.sort_order = AscendingOrder)
         => \A i, j \in DOMAIN EmittedRows :
               (WorkerList[EmittedRows[i]].latency = <<>>
                    /\ WorkerList[EmittedRows[j]].latency # <<>>)
                  => j < i]_vars

\* the rows are in the order of a view: no entity that is not a favorite
\* before a favorite, and within each of the two groups the order of the sort
\* on the column (columns other than 1, 2 and 3 do not sort)
WellOrdered(list, rows, column, order) ==
    \A i, j \in DOMAIN rows :
        i < j =>
            LET a == list[rows[i]]
                b == list[rows[j]]
            IN  /\ ~(~a.is_favorite /\ b.is_favorite)
                /\ (column \in {1, 2, 3} /\ a.is_favorite = b.is_favorite)
                       => IF order = DescendingOrder
                          THEN ~key_less(sort_key(a, column), sort_key(b, column))
                          ELSE ~key_less(sort_key(b, column), sort_key(a, column))

\* C21: in every view that DisplayWorker.run emits and in every view that
\* display_servers shows, for every sort column and both orders, every
\* favorite precedes every entity that is not one, and within each of the two
\* groups the entities are in the order of the requested sort.
C21_FavoritesFirstThenSorted ==
    [][/\ Emits => WellOrdered(WorkerList, EmittedRows, display_worker.sort_column,
                               display_worker.sort_order)
       /\ SlotRuns("display_ready")
              => WellOrdered(list_of(Head(events).servers.of), displayed_servers'.rows,
                             table_sort_column, table_sort_order)]_vars

\* C28: the view a DisplayWorker run emits is computed from one state of the
\* catalog: it is the filtered and sorted view of the list as it was at one of
\* the moments the run read it.
C28_ViewOfOneCatalogState ==
    [][Emits => \E list \in display_worker.seen \cup {WorkerList} :
                    EmittedRows = run_view(list, display_worker)]_vars

\* the step is one of DisplayWorker.run, or the slot that runs display_servers
ProducesView ==
    \/ display_worker # None /\ display_worker' # None
          /\ display_worker.state # display_worker'.state
    \/ SlotRuns("display_ready")

\* C23: producing a view (the passes of DisplayWorker.run, then
\* display_servers) leaves the list MainWindow.servers as it was: the same
\* entities in the same order with the same field values.
C23_ProducingViewLeavesCatalog ==
    [][ProducesView => mw_servers' = mw_servers]_vars

\* display_servers has shown a view of the two servers of the catalog that is
\* not in the catalog's order (the favorite second server comes first)
C23_ReorderedViewShown ==
    /\ Len(mw_servers) = 2
    /\ displayed_servers = [of |-> <<>>, rows |-> <<2, 1>>]

-----------------------------------------------------------------------------
(* Further properties of the master-server discovery *)

\* b'\\appid\\513650\x00' and b'0.0.0.0:0\x00', byte by byte
AppIdFilterBytes == <<92, 97, 112, 112, 105, 100, 92, 53, 49, 51, 54, 53, 48, 0>>
NullSeedBytes == <<48, 46, 48, 46, 48, 46, 48, 58, 48, 0>>

\* the seed that names the last full 6-byte entry of a reply
SeedOfLastEntry(d) ==
    LET n == (Len(d) - 6) \div 6
        at == 6 * n
    IN  join_dot(Slice(d, at, at + 4)) \o <<58>>
            \o str_int(unpack_H(Slice(d, at + 4, at + 6))) \o <<0>>

\* C31: the first request of a discovery carries the seed "0.0.0.0:0" and the
\* region byte 0xFF; every later request carries as seed the last (ip, port)
\* entry of the reply received just before it; every request carries the
\* same application-id filter.
C31_RequestsCarrySeedRegionAndFilter ==
    [][sends' = sends + 1 =>
          query' = <<49, 255>>
                     \o (IF sends = 0 THEN NullSeedBytes ELSE SeedOfLastEntry(data))
                     \o AppIdFilterBytes]_vars

\* a second request was sent whose seed is the entry 0.0.0.0:27015 of the
\* first reply
C31_SecondRequestSeeded ==
    /\ sends >= 2
    /\ query = <<49, 255>> \o ZeroIp \o <<58, 50, 55, 48, 49, 53, 0>> \o AppIdFilterBytes

\* C32: when the discovery against one master stops without an end marker
\* (the iteration cap, a receive timeout, a reply shorter than 6 bytes or a
\* reply with no entry), _query_master returns, without raising, the batches
\* received before the stop, concatenated in order.
C32_StopWithoutMarkerReturnsAllBatches ==
    (pc = "qm_returned" /\ stop \in {"cap", "timeout", "short", "empty_batch"})
        => ret = parsed

\* the cap was reached after 100 non-empty batches, all of them returned
C32_CapReturnsEveryBatch ==
    /\ pc = "qm_returned"
    /\ stop = "cap"
    /\ Len(ret) >= max_iterations
    /\ ret = parsed

\* the k-th 6-byte entry after the first 6 bytes of a reply: 4 bytes of
\* dotted-quad ip, then the port, big-endian
EntryAt(d, k) ==
    LET at == 6 * k
    IN  <<str_int(d[at + 1]) \o <<46>> \o str_int(d[at + 2]) \o <<46>>
              \o str_int(d[at + 3]) \o <<46>> \o str_int(d[at + 4]),
          d[at + 5] * 256 + d[at + 6]>>

\* the entries at offsets 6, 12, 18, ... while a full 6 bytes remain
AllEntries(d) == [k \in 1..((Len(d) - 6) \div 6) |-> EntryAt(d, k)]

\* a reply has been received in this step
ReplyReceived == sends' = sends + 1 /\ stop' \notin {"timeout", "error"}

\* the entries the pass has read from the reply: its batch, and the end
\* marker when it met one
EntriesRead ==
    IF stop' = "end_marker" THEN Append(batch_servers', <<ZeroIp, 0>>)
    ELSE batch_servers'

\* C33: a reply of 6 bytes or more is parsed as the entries at offsets 6, 12,
\* 18, ... while a full 6 bytes remain, each 4 bytes of dotted-quad ip and a
\* 2-byte big-endian port; trailing bytes that fill no entry are ignored and
\* the first 6 bytes are never read as an entry.
C33_ReplyParsedAsAllItsEntries ==
    [][(ReplyReceived /\ Len(data') >= 6) => EntriesRead = AllEntries(data')]_vars

\* the index of the first end marker among the entries, 0 when there is none
RECURSIVE FirstMarker(_, _)
FirstMarker(list, k) ==
    IF k > Len(list) THEN 0
    ELSE IF list[k] = <<ZeroIp, 0>> THEN k
    ELSE FirstMarker(list, k + 1)

\* C33, amended: a reply of 6 bytes or more is parsed as the entries at
\* offsets 6, 12, 18, ... while a full 6 bytes remain, up to and including the
\* first entry that is the end marker 0.0.0.0:0, after which nothing is read;
\* each entry is 4 bytes of dotted-quad ip and a 2-byte big-endian port,
\* trailing bytes that fill no entry are ignored, and the first 6 bytes are
\* never read as an entry.
C33_ReplyParsedUpToFirstMarker ==
    [][(ReplyReceived /\ Len(data') >= 6) =>
          LET all == AllEntries(data')
              m == FirstMarker(all, 1)
          IN  /\ (stop' = "end_marker") = (m # 0)
              /\ EntriesRead = IF m = 0 THEN all ELSE SubSeq(all, 1, m)]_vars

\* a reply whose first 6 bytes are those of an end marker was parsed as its one
\* entry 0.0.0.0:27015, and the loop went on
C33_MarkerBytesInHeaderNotAnEntry ==
    /\ pc = "qm_loop"
    /\ data = EntryMarker \o EntryZeroIp
    /\ batch_servers = <<<<ZeroIp, 27015>>>>
    /\ servers # <<>>

-----------------------------------------------------------------------------
(* Properties of the window across refreshes *)

\* C34: in every reachable state, also after a refresh that starts while
\* probes of the previous round are in flight or scheduled, the counter
\* pings_completed is at most total_pings.
C34_CompletedAtMostTotal == pings_completed <= total_pings

\* C35: the end of a probing round (pings_completed >= total_pings) is
\* signalled only when every server of the current snapshot has received a
\* probe result of the current round; here: at least a probe result.
C35_RoundEndsWhenEveryServerHasResult ==
    [][(SlotRuns("ping_completed") /\ pings_completed' >= total_pings')
          => \A k \in DOMAIN mw_servers' : mw_servers'[k].last_ping_time # <<>>]_vars

\* C36: at most one chain of scheduled _ping_batch calls is active at a time,
\* also after a refresh that replaces the catalog while a batch of the
\* previous round is still scheduled (so that no server of the new snapshot
\* is probed twice in the new round).
C36_AtMostOneBatchChain == BagCardinality(batch_timers) <= 1

\* C37: at most one discovery fetch (ServerFetchWorker) is in flight at any
\* time, for every interleaving of the Refresh button, the auto-refresh timer
\* and the fetch completions.
C37_AtMostOneFetchInFlight == fetch_workers <= 1

-----------------------------------------------------------------------------
(* Properties of the displayed view under changes *)

\* what filter_servers() and display_servers() would show of the catalog now
LatestView ==
    view(<<>>, display_rows(mw_servers, run_view(mw_servers, DisplayWorker),
                            table_sort_column, table_sort_order))

\* C38: after any change of the filters, of the sort settings or of the
\* catalog, the displayed view eventually equals the filtered and sorted view
\* of the latest catalog under the latest settings, also when the change
\* arrives while a DisplayWorker is running.
C38_ViewEventuallyLatest == <>[](displayed_servers = LatestView)

\* C39: the sort-then-favorites-first step is idempotent: when the table's
\* sort column and order are those the DisplayWorker ran with, display_servers
\* shows the rows of the worker's view in exactly the order the worker emitted
\* them, for every list including ties and unmeasured latencies.
C39_DisplaySortIdempotent ==
    [][(SlotRuns("display_ready")
            /\ display_worker.sort_column = table_sort_column
            /\ display_worker.sort_order = table_sort_order)
          => displayed_servers'.rows = Head(events).servers.rows]_vars

\* a view of two favorites that tie on the ping column, one never probed and
\* one probed with 0, was shown under the descending order
C39_TiedUnmeasuredShown ==
    /\ "sig" \in DOMAIN handled
    /\ handled.sig = "display_ready"
    /\ table_sort_column = 3
    /\ table_sort_order = DescendingOrder
    /\ displayed_servers.rows = <<1, 2>>
    /\ LET list == list_of(displayed_servers.of)
       IN  /\ list[1].latency = <<>> /\ list[2].latency = <<0>>
           /\ list[1].is_favorite /\ list[2].is_favorite

=============================================================================
